---- MODULE Spec2Model ----
(***************************************************************************)
(* chatdelta-go: the retry engine (ExecuteWithRetry,                       *)
(* ExecuteWithExponentialBackoff), the OpenAI stream producer and the      *)
(* ChatSession transaction logic, as state machines.                       *)
(*                                                                         *)
(* Strings are sequences over a small alphabet, so that concatenation      *)
(* (fullContent += chunk.Content) is computed and not assumed.             *)
(* Durations are counted in whole seconds.                                 *)
(***************************************************************************)
EXTENDS Integers, Sequences, FiniteSets, TLC

\* ------------------------------------------------------------------------
\* Bounds of the model
\* ------------------------------------------------------------------------
MaxRetries == 3        \* largest retry count handed to the retry engine
MaxBaseDelay == 1      \* base delays are 0s, 1s and 10s, ..., 10*MaxBaseDelay s
MaxCalls == 1          \* session operations issued after the initial history
MaxFrames == 2         \* frames the server sends on one streaming response
MaxChunks == 2         \* chunks an arbitrary AIClient puts on its channel
MaxClientRetries == 1  \* config.Retries of the session's OpenAI client
MaxClients == 2        \* clients handed to ExecuteParallel(Conversation)
MaxMergeChunks == 3    \* chunks sent on the channel MergeStreamChunks reads

\* ------------------------------------------------------------------------
\* Program constants
\* ------------------------------------------------------------------------
MaxDelaySeconds == 30  \* cap of the exponential backoff
ProviderChanCap == 10  \* make(chan StreamChunk, 10)
WrappedChanCap == 100  \* make(chan StreamChunk, 100)

VARIABLES
    \* --- retry engine (one call of ExecuteWithRetry / ...Backoff) ---
    rpc,          \* "idle", "attempt", "op" (the operation is running), "wait"
                  \* (the select), "done" (returned), "cancelled" (returned
                  \* ctx.Err() from the select)
    engine,       \* "ExecuteWithRetry" or "ExecuteWithExponentialBackoff"
    retries,      \* the retries argument
    baseDelay,    \* the baseDelay argument, seconds
    attempt,      \* the loop variable
    lastErr,      \* the local lastErr
    delay,        \* the local delay of the current wait, seconds
    rret,         \* the error value returned by the engine
    outcomes,     \* results of the operation invocations so far, in order
    ctxDone,      \* ctx.Done() is closed
    ctxErr,       \* ctx.Err()
    \* --- OpenAI stream producer (goroutine of StreamConversation) ---
    ppc,          \* "idle", "start", "retrying", "closing", "closed"
    framesRead,   \* frames the scanner has returned in the current request
    chunks,       \* the provider's resultChan / the AIClient's channel
    chunksClosed, \* close(resultChan) has run
    produced,     \* number of chunks the source has put on its channel
    \* --- ChatSession ---
    client,       \* the bound client: "OpenAI", or "AIClient" for any other
                  \* implementation of the interface ("none": no session)
    cfgRetries,   \* config.Retries of the bound client
    conversation, \* s.conversation.Messages
    spc,          \* position of the caller inside a session method
    prior,        \* the history when the current/last call was entered
    callMsg,      \* the message argument of that call
    clientArg,    \* the conversation the client was handed
    clientOut,    \* what the client returned
    ret,          \* what the call returned to the caller
    calls,        \* session operations issued so far
    \* --- goroutine of ChatSession.Stream ---
    gpc,          \* "none", "recv", "send", "commit", "closed"
    fullContent,  \* the local fullContent
    chunk,        \* the loop variable chunk
    received,     \* the chunks received from the source so far
    wrapped,      \* the wrapped channel
    wrappedClosed,\* close(wrapped) has run
    delivered,    \* chunks the caller has taken from wrapped
    \* --- error classification (IsRetryableError, IsAuthenticationError, Is) ---
    errX,         \* an error value held by the caller
    errY,         \* a second error value held by the caller
    answers,      \* the results of the classification calls made so far
    \* --- SendConversation of a provider client ---
    scpc,         \* "idle", "running", "returned"
    scResult,     \* the local result of SendConversation
    scRet,        \* what SendConversation returned
    \* --- ExecuteParallel / ExecuteParallelConversation ---
    fpc,          \* "idle", "spawning" (the for loop), "waiting" (wg.Wait()),
                  \* "returned"
    fanFn,        \* which of the two functions was called
    fanClients,   \* the clients argument
    fanPrompt,    \* the prompt argument of ExecuteParallel
    fanConv,      \* conversation.Messages of ExecuteParallelConversation
    spawned,      \* goroutines started so far (the loop index)
    tpc,          \* per goroutine: "none", "start", "calling", "assign", "done"
    taskOut,      \* per goroutine: its locals result and err
    results,      \* the results slice
    wg,           \* the WaitGroup counter
    clientRets,   \* per client: what its method returned, once it has
    promptCalls,  \* per client: the prompts its SendPrompt was invoked with
    \* --- MergeStreamChunks ---
    mpc,          \* "idle", "range" (the for loop), "returned"
    mchan,        \* the chunks channel
    mclosed,      \* the channel has been closed by its sender
    msent,        \* every chunk sent on the channel so far, in order
    mresult,      \* the local result
    mtaken,       \* the chunks the loop has received, in order
    mret,         \* what MergeStreamChunks returned
    \* --- history of the producer's scanner ---
    scanned,      \* the lines the scanner has returned in the current request
    \* --- client configuration and the factory ---
    cfg,          \* the ClientConfig under construction
    cfgSets,      \* number of Set* calls made on it
    env,          \* the environment variables that hold a non-empty value
    cpc,          \* the factory or convenience call made last, with its
                  \* arguments ("idle": none)
    cret,         \* what that call returned
    \* --- the delay arithmetic of ExecuteWithExponentialBackoff ---
    bd            \* baseDelay, attempt, and the delays of this and the
                  \* previous attempt, as 64-bit words

retryVars == <<rpc, engine, retries, baseDelay, attempt, lastErr, delay, rret, outcomes>>
ctxVars == <<ctxDone, ctxErr>>
producerVars == <<ppc, framesRead, chunks, chunksClosed, produced>>
sessionVars == <<client, cfgRetries, conversation, spc, prior, callMsg, clientArg,
                 clientOut, ret, calls>>
streamVars == <<gpc, fullContent, chunk, received, wrapped, wrappedClosed, delivered>>
errVars == <<errX, errY, answers>>
sendVars == <<scpc, scResult, scRet>>
fanVars == <<fpc, fanFn, fanClients, fanPrompt, fanConv, spawned, tpc, taskOut,
             results, wg, clientRets, promptCalls>>
mergeVars == <<mpc, mchan, mclosed, msent, mresult, mtaken, mret>>
scanVars == <<scanned>>
restVars == <<errVars, sendVars, fanVars, mergeVars>>
cfgVars == <<cfg, cfgSets, env, cpc, cret>>
backoffVars == <<bd>>
lateVars == <<cfgVars, backoffVars>>
tailVars == <<scanVars, lateVars>>
extVars == <<restVars, tailVars>>
vars == <<rpc, engine, retries, baseDelay, attempt, lastErr, delay, rret, outcomes,
          ctxDone, ctxErr,
          ppc, framesRead, chunks, chunksClosed, produced,
          client, cfgRetries, conversation, spc, prior, callMsg, clientArg,
          clientOut, ret, calls,
          gpc, fullContent, chunk, received, wrapped, wrappedClosed, delivered,
          errX, errY, answers,
          scpc, scResult, scRet,
          fpc, fanFn, fanClients, fanPrompt, fanConv, spawned, tpc, taskOut,
          results, wg, clientRets, promptCalls,
          mpc, mchan, mclosed, msent, mresult, mtaken, mret,
          scanned,
          cfg, cfgSets, env, cpc, cret,
          bd>>

\* ------------------------------------------------------------------------
\* Error values
\* ------------------------------------------------------------------------
\* kind: "nil", "ClientError", "net.Error" (a standard-library network
\* error), "error" (any other error value).  temp is Timeout() || Temporary()
\* of a net.Error.
ErrValue(k, t, c, tmp) == [kind |-> k, Type |-> t, Code |-> c, temp |-> tmp]
Nil == ErrValue("nil", "", "", FALSE)
ClientError(t, c) == ErrValue("ClientError", t, c, FALSE)

NewTimeoutError == ClientError("network", "timeout")
NewConnectionError == ClientError("network", "connection_failed")
NewRateLimitError == ClientError("api", "rate_limit")
NewServerError == ClientError("api", "server_error")
NewBadRequestError == ClientError("api", "bad_request")
NewInvalidAPIKeyError == ClientError("auth", "invalid_api_key")
NewStreamReadError == ClientError("stream", "stream_read_error")

\* context.Canceled is a plain error; context.DeadlineExceeded implements
\* net.Error with Timeout() = Temporary() = true.
ContextCanceled == ErrValue("error", "context", "canceled", FALSE)
ContextDeadlineExceeded == ErrValue("net.Error", "context", "deadline_exceeded", TRUE)
ContextErrors == {ContextCanceled, ContextDeadlineExceeded}

IsRetryableError_AnyAPI(err) ==
    IF err.kind = "ClientError"
    THEN err.Type = "network" \/ err.Type = "api"
    ELSE IF err.kind = "net.Error" THEN err.temp
    ELSE FALSE

IsRetryableError(err) ==
    IF err.kind = "ClientError"
    THEN CASE err.Type = "network" -> TRUE
           [] err.Type = "api" -> err.Code = "rate_limit" \/ err.Code = "server_error"
           [] OTHER -> FALSE
    ELSE IF err.kind = "net.Error" THEN err.temp
    ELSE FALSE

\* ------------------------------------------------------------------------
\* Retry engine
\* ------------------------------------------------------------------------
Engines == {"ExecuteWithRetry", "ExecuteWithExponentialBackoff"}
RetryCounts == (0 - 1)..MaxRetries
BaseDelays == {0, 1} \cup {10 * k : k \in 1..MaxBaseDelay}

\* The results an arbitrary operation func() error can have.
OperationOutcomes ==
    {Nil, NewTimeoutError, NewRateLimitError, NewBadRequestError,
     NewInvalidAPIKeyError, NewStreamReadError,
     ErrValue("net.Error", "", "", TRUE), ErrValue("net.Error", "", "", FALSE),
     ErrValue("error", "", "", FALSE)}

RECURSIVE Pow2(_)
Pow2(n) == IF n <= 0 THEN 1 ELSE 2 * Pow2(n - 1)

Min(a, b) == IF a <= b THEN a ELSE b

\* delay := time.Duration(attempt+1) * time.Second
RetryDelay(a) == a + 1

\* delay := time.Duration(math.Pow(2, float64(attempt))) * baseDelay, capped
BackoffDelay(a, b) == Min(Pow2(a) * b, MaxDelaySeconds)

ComputeDelay(e, a, b) ==
    IF e = "ExecuteWithRetry" THEN RetryDelay(a) ELSE BackoffDelay(a, b)

\* for attempt := 0; attempt <= retries; ...
LoopCondition(a, n) == a <= n

\* if attempt == retries { break }
LastAttempt_OffByOne(a, n) == a = n + 1

LastAttempt(a, n) == a = n

\* The branch the loop body takes once operation() has returned err:
\* "success" (return nil), "fail" (return err), "exhausted" (break) or
\* "wait" (the select statement).
Decision_RetryAnyError(err, a, n) ==
    IF err = Nil THEN "success"
    ELSE IF LastAttempt(a, n) THEN "exhausted"
    ELSE "wait"

Decision(err, a, n) ==
    IF err = Nil THEN "success"
    ELSE IF ~IsRetryableError(err) THEN "fail"
    ELSE IF LastAttempt(a, n) THEN "exhausted"
    ELSE "wait"

\* return lastErr, after the loop
ReturnAfterLoop_Wrapped(le) == ErrValue("error", "wrapped", le.Code, FALSE)

ReturnAfterLoop(le) == le

\* What the loop body does once operation() has returned err, up to the
\* select statement or the return.
AfterOperation(err) ==
    LET d == Decision(err, attempt, retries) IN
    /\ outcomes' = Append(outcomes, err)
    /\ lastErr' = IF d = "success" THEN lastErr ELSE err
    /\ rpc' = IF d = "wait" THEN "wait" ELSE "done"
    /\ rret' = CASE d = "success" -> Nil
                 [] d = "fail" -> err
                 [] d = "exhausted" -> ReturnAfterLoop(err)
                 [] OTHER -> rret
    /\ delay' = IF d = "wait" THEN ComputeDelay(engine, attempt, baseDelay) ELSE delay
    /\ UNCHANGED <<engine, retries, baseDelay, attempt>>

\* Entry of ExecuteWithRetry / ExecuteWithExponentialBackoff: the locals are
\* initialised and the loop condition is tested for attempt = 0.
EngineEntry(e, n, b) ==
    /\ engine' = e
    /\ retries' = n
    /\ baseDelay' = b
    /\ attempt' = 0
    /\ lastErr' = Nil
    /\ outcomes' = <<>>
    /\ delay' = 0
    /\ IF LoopCondition(0, n)
       THEN rpc' = "attempt" /\ rret' = Nil
       ELSE rpc' = "done" /\ rret' = ReturnAfterLoop(Nil)

\* A direct call of one of the two engines by a caller.
Execute(e, n, b) ==
    /\ rpc = "idle"
    /\ ppc = "idle"
    /\ e = "ExecuteWithRetry" => b = 0     \* ExecuteWithRetry has no baseDelay
    /\ EngineEntry(e, n, b)
    /\ UNCHANGED <<ctxVars, producerVars, sessionVars, streamVars>>
    /\ UNCHANGED extVars

\* err := operation(), for an arbitrary operation.
Operation(o) ==
    /\ rpc = "attempt"
    /\ ppc = "idle"
    /\ AfterOperation(o)
    /\ UNCHANGED <<ctxVars, producerVars, sessionVars, streamVars>>
    /\ UNCHANGED extVars

\* case <-ctx.Done(): return ctx.Err()
SelectCtxDoneStep ==
    /\ rpc = "wait"
    /\ ctxDone
    /\ rpc' = "cancelled"
    /\ rret' = ctxErr
    /\ UNCHANGED <<engine, retries, baseDelay, attempt, lastErr, delay, outcomes>>

\* The timer case may be taken when the timer is ready on entry to the select
\* (a delay that is not positive), or when the timer fires while the select
\* is blocked, which requires that ctx.Done() has not been closed before:
\* a closed Done channel wakes the blocked select first.  When both channels
\* are ready on entry, Go picks either case.
TimerMayWin == delay <= 0 \/ ~ctxDone

\* case <-time.After(delay): continue with attempt++ and the loop condition
SelectTimeAfterStep ==
    /\ rpc = "wait"
    /\ TimerMayWin
    /\ attempt' = attempt + 1
    /\ IF LoopCondition(attempt + 1, retries)
       THEN rpc' = "attempt" /\ UNCHANGED rret
       ELSE rpc' = "done" /\ rret' = ReturnAfterLoop(lastErr)
    /\ UNCHANGED <<engine, retries, baseDelay, lastErr, delay, outcomes>>

SelectCtxDone ==
    /\ SelectCtxDoneStep
    /\ UNCHANGED <<ctxVars, producerVars, sessionVars, streamVars>>
    /\ UNCHANGED extVars

SelectTimeAfter ==
    /\ SelectTimeAfterStep
    /\ UNCHANGED <<ctxVars, producerVars, sessionVars, streamVars>>
    /\ UNCHANGED extVars

\* The caller's context is cancelled or its deadline passes, at any moment
\* of a call that was given the context.
CtxCancel(e) ==
    /\ ~ctxDone
    /\ client = "none" \/ ppc \in {"start", "retrying", "closing"}
    /\ ctxDone' = TRUE
    /\ ctxErr' = e
    /\ UNCHANGED <<retryVars, producerVars, sessionVars, streamVars>>
    /\ UNCHANGED extVars

\* ------------------------------------------------------------------------
\* Client configuration
\* ------------------------------------------------------------------------
\* an optional field: a nil pointer, or a pointer to the value set
Unset == [set |-> FALSE, v |-> 0]
Some(v) == [set |-> TRUE, v |-> v]

RetryStrategies == {"fixed", "linear", "exponential", "exponential_with_jitter"}

\* NewClientConfig().  Timeout is in seconds; the float64 fields are in
\* tenths, so that 20 stands for 2.0.
NewClientConfig ==
    [Timeout |-> 30, Retries |-> 3, Temperature |-> Unset, MaxTokens |-> Unset,
     TopP |-> Unset, FrequencyPenalty |-> Unset, PresencePenalty |-> Unset,
     RetryStrategy |-> "exponential"]

\* a nil *ClientConfig and a nil AIClient
NilConfig == [nil |-> TRUE]
NilClient == [variant |-> "nil"]

\* a call of a package-level function with its arguments
Call(fn, provider, apiKey, model, config) ==
    [fn |-> fn, provider |-> provider, apiKey |-> apiKey, model |-> model,
     config |-> config]
NoCall == Call("idle", <<>>, "", "", NilConfig)

\* a 64-bit word as four 16-bit limbs, least significant first
ZeroWord == <<0, 0, 0, 0>>

\* ------------------------------------------------------------------------
\* Initial values of the parts a specification does not exercise
\* ------------------------------------------------------------------------
ConfigIdle ==
    /\ cfgSets = 0
    /\ cpc = NoCall
    /\ cret = [client |-> NilClient, err |-> Nil]

ConfigUnused ==
    /\ cfg = NewClientConfig
    /\ env = {}
    /\ ConfigIdle

BackoffUnused ==
    bd = [base |-> ZeroWord, attempt |-> 0, delay |-> ZeroWord, prev |-> ZeroWord,
          pc |-> "idle"]

RetryIdle ==
    /\ rpc = "idle"
    /\ engine = "ExecuteWithRetry"
    /\ retries = 0
    /\ baseDelay = 0
    /\ attempt = 0
    /\ lastErr = Nil
    /\ delay = 0
    /\ rret = Nil
    /\ outcomes = <<>>

CtxLive ==
    /\ ctxDone = FALSE
    /\ ctxErr = Nil

ProducerIdle ==
    /\ ppc = "idle"
    /\ framesRead = 0
    /\ scanned = <<>>
    /\ chunks = <<>>
    /\ chunksClosed = FALSE
    /\ produced = 0

StreamIdle ==
    /\ gpc = "none"
    /\ fullContent = <<>>
    /\ chunk = [Content |-> <<>>, Finished |-> FALSE]
    /\ received = <<>>
    /\ wrapped = <<>>
    /\ wrappedClosed = FALSE
    /\ delivered = <<>>

NoReturn == [op |-> "none", value |-> <<>>, err |-> Nil]
NoOutcome == [value |-> <<>>, err |-> Nil]

CallIdle ==
    /\ spc = "idle"
    /\ prior = <<>>
    /\ callMsg = <<>>
    /\ clientArg = <<>>
    /\ clientOut = NoOutcome
    /\ ret = NoReturn
    /\ calls = 0

SessionUnused ==
    /\ client = "none"
    /\ cfgRetries = 0
    /\ conversation = <<>>
    /\ CallIdle

ErrorsUnused ==
    /\ errX = Nil
    /\ errY = Nil
    /\ answers = {}

SendConversationIdle ==
    /\ scpc = "idle"
    /\ scResult = <<>>
    /\ scRet = NoOutcome

FanOutLocals ==
    /\ fpc = "idle"
    /\ spawned = 0
    /\ tpc = <<>>
    /\ taskOut = <<>>
    /\ results = <<>>
    /\ wg = 0
    /\ clientRets = <<>>
    /\ promptCalls = <<>>

FanOutUnused ==
    /\ fanFn = "ExecuteParallel"
    /\ fanClients = <<>>
    /\ fanPrompt = <<>>
    /\ fanConv = <<>>
    /\ FanOutLocals

MergeLocals ==
    /\ mpc = "idle"
    /\ mresult = <<>>
    /\ mtaken = <<>>
    /\ mret = NoOutcome

MergeUnused ==
    /\ mchan = <<>>
    /\ mclosed = FALSE
    /\ msent = <<>>
    /\ MergeLocals

\* ------------------------------------------------------------------------
\* Specification of the retry engine called directly
\* ------------------------------------------------------------------------
InitRetry ==
    /\ RetryIdle /\ CtxLive /\ ProducerIdle /\ StreamIdle /\ ConfigUnused /\ BackoffUnused /\ SessionUnused
    /\ ErrorsUnused /\ SendConversationIdle /\ FanOutUnused /\ MergeUnused

NextRetry ==
    \/ \E e \in Engines, n \in RetryCounts, b \in BaseDelays : Execute(e, n, b)
    \/ \E o \in OperationOutcomes : Operation(o)
    \/ SelectCtxDone
    \/ SelectTimeAfter
    \/ \E e \in ContextErrors : CtxCancel(e)

SpecRetry == InitRetry /\ [][NextRetry]_vars

\* ------------------------------------------------------------------------
\* Conversation
\* ------------------------------------------------------------------------
Message(role, content) == [Role |-> role, Content |-> content]

\* c.Messages = append(c.Messages, Message{Role: role, Content: content})
AddMessage_Prepend(msgs, role, content) == <<Message(role, content)>> \o msgs

AddMessage(msgs, role, content) == Append(msgs, Message(role, content))

AddSystemMessage_AsUser(msgs, content) == AddMessage(msgs, "user", content)

AddSystemMessage(msgs, content) == AddMessage(msgs, "system", content)
AddUserMessage(msgs, content) == AddMessage(msgs, "user", content)
AddAssistantMessage(msgs, content) == AddMessage(msgs, "assistant", content)

\* if len(Messages) > 0 { Messages = Messages[:len(Messages)-1] }
RemoveLast_Keep(msgs) == msgs

RemoveLast(msgs) ==
    IF Len(msgs) > 0 THEN SubSeq(msgs, 1, Len(msgs) - 1) ELSE msgs

\* ------------------------------------------------------------------------
\* Inputs of the session
\* ------------------------------------------------------------------------
UserTexts == {<<"q">>}
SystemTexts == {<<"s">>}
ResponseTexts == {<<>>, <<"a">>}
Roles == {"system", "user", "assistant"}
Metadata == {"m0", "m1"}
ClientKinds == {"OpenAI", "AIClient"}

StreamChunk(content, finished) == [Content |-> content, Finished |-> finished]
\* the chunks an arbitrary AIClient sends: text fragments, and terminal
\* chunks with and without text
StreamChunks ==
    {StreamChunk(<<"a">>, FALSE), StreamChunk(<<"b">>, FALSE),
     StreamChunk(<<>>, TRUE), StreamChunk(<<"b">>, TRUE)}

\* Errors a client call returns to the session.
CallErrors == {NewTimeoutError, NewInvalidAPIKeyError, ContextCanceled}

\* (string, error) results of SendConversation
SendOutcomes ==
    {[value |-> t, err |-> Nil] : t \in ResponseTexts}
    \cup {[value |-> <<>>, err |-> e] : e \in CallErrors}

\* (*AiResponse, error) results of SendConversationWithMetadata
MetadataOutcomes ==
    {[value |-> [Content |-> t, Metadata |-> md], err |-> Nil] :
        t \in ResponseTexts, md \in Metadata}
    \cup {[value |-> <<>>, err |-> e] : e \in CallErrors}

\* ------------------------------------------------------------------------
\* ChatSession
\* ------------------------------------------------------------------------
\* A new call is issued when the previous one has returned and the stream
\* it may have started has ended: one caller, one call at a time.
SessionReady ==
    /\ client # "none"
    /\ spc = "idle"
    /\ gpc \in {"none", "closed"}
    /\ calls < MaxCalls

\* The variables of the previous stream are those of locals and channels
\* that are gone once a new call starts.
ChannelsReset ==
    /\ fullContent' = <<>>
    /\ chunk' = StreamChunk(<<>>, FALSE)
    /\ received' = <<>>
    /\ wrapped' = <<>>
    /\ wrappedClosed' = FALSE
    /\ delivered' = <<>>
    /\ framesRead' = 0
    /\ chunks' = <<>>
    /\ chunksClosed' = FALSE
    /\ produced' = 0
    /\ ctxDone' = FALSE
    /\ ctxErr' = Nil

\* the variables of a finished ExecuteWithRetry call are gone as well
RetryReset ==
    /\ rpc' = "idle"
    /\ engine' = "ExecuteWithRetry"
    /\ retries' = 0
    /\ baseDelay' = 0
    /\ attempt' = 0
    /\ lastErr' = Nil
    /\ delay' = 0
    /\ rret' = Nil
    /\ outcomes' = <<>>

StreamReset ==
    /\ gpc' = "none"
    /\ ppc' = "idle"
    /\ ChannelsReset
    /\ RetryReset

\* Send up to the call of s.client.SendConversation(ctx, s.conversation)
Send(m) ==
    /\ SessionReady
    /\ conversation' = AddUserMessage(conversation, m)
    /\ prior' = conversation
    /\ callMsg' = m
    /\ clientArg' = conversation'
    /\ clientOut' = NoOutcome
    /\ ret' = NoReturn
    /\ spc' = "Send"
    /\ calls' = calls + 1
    /\ StreamReset
    /\ UNCHANGED <<client, cfgRetries>>
    /\ UNCHANGED extVars

\* The rest of Send, from the client's (response, err)
SendFinish_NoAssistant(msgs, response, err) ==
    IF err # Nil
    THEN [conversation |-> RemoveLast(msgs), value |-> <<>>, err |-> err]
    ELSE [conversation |-> msgs, value |-> response, err |-> Nil]

SendFinish(msgs, response, err) ==
    IF err # Nil
    THEN [conversation |-> RemoveLast(msgs), value |-> <<>>, err |-> err]
    ELSE [conversation |-> AddAssistantMessage(msgs, response),
          value |-> response, err |-> Nil]

SendConversationReturns(o) ==
    /\ spc = "Send"
    /\ LET r == SendFinish(conversation, o.value, o.err) IN
         /\ conversation' = r.conversation
         /\ ret' = [op |-> "Send", value |-> r.value, err |-> r.err]
    /\ clientOut' = o
    /\ spc' = "idle"
    /\ UNCHANGED <<retryVars, ctxVars, producerVars, streamVars, client, cfgRetries,
                   prior, callMsg, clientArg, calls>>
    /\ UNCHANGED extVars

\* SendWithMetadata up to the call of s.client.SendConversationWithMetadata
SendWithMetadata(m) ==
    /\ SessionReady
    /\ conversation' = AddUserMessage(conversation, m)
    /\ prior' = conversation
    /\ callMsg' = m
    /\ clientArg' = conversation'
    /\ clientOut' = NoOutcome
    /\ ret' = NoReturn
    /\ spc' = "SendWithMetadata"
    /\ calls' = calls + 1
    /\ StreamReset
    /\ UNCHANGED <<client, cfgRetries>>
    /\ UNCHANGED extVars

\* The rest of SendWithMetadata, from the client's (response, err)
SendWithMetadataFinish_NoRollback(msgs, response, err) ==
    IF err # Nil
    THEN [conversation |-> msgs, value |-> <<>>, err |-> err]
    ELSE [conversation |-> AddAssistantMessage(msgs, response.Content),
          value |-> response, err |-> Nil]

SendWithMetadataFinish(msgs, response, err) ==
    IF err # Nil
    THEN [conversation |-> RemoveLast(msgs), value |-> <<>>, err |-> err]
    ELSE [conversation |-> AddAssistantMessage(msgs, response.Content),
          value |-> response, err |-> Nil]

SendConversationWithMetadataReturns(o) ==
    /\ spc = "SendWithMetadata"
    /\ LET r == SendWithMetadataFinish(conversation, o.value, o.err) IN
         /\ conversation' = r.conversation
         /\ ret' = [op |-> "SendWithMetadata", value |-> r.value, err |-> r.err]
    /\ clientOut' = o
    /\ spc' = "idle"
    /\ UNCHANGED <<retryVars, ctxVars, producerVars, streamVars, client, cfgRetries,
                   prior, callMsg, clientArg, calls>>
    /\ UNCHANGED extVars

\* Errors StreamConversation can return: the OpenAI client always returns
\* (resultChan, nil); another implementation of AIClient may fail.
StreamConversationErrors(c) ==
    IF c = "OpenAI" THEN {Nil} ELSE {Nil} \cup CallErrors

\* Stream: the whole method.  On success the wrapper goroutine is started
\* (gpc = "recv") and, for the OpenAI client, the producer goroutine of
\* StreamConversation (ppc = "start").
Stream(m, err) ==
    /\ SessionReady
    /\ err \in StreamConversationErrors(client)
    /\ prior' = conversation
    /\ callMsg' = m
    /\ clientArg' = AddUserMessage(conversation, m)
    /\ clientOut' = [value |-> <<>>, err |-> err]
    /\ calls' = calls + 1
    /\ spc' = "idle"
    /\ ChannelsReset
    /\ IF err # Nil
       THEN /\ conversation' = RemoveLast(AddUserMessage(conversation, m))
            /\ ret' = [op |-> "Stream", value |-> <<>>, err |-> err]
            /\ gpc' = "none"
            /\ ppc' = "idle"
       ELSE /\ conversation' = AddUserMessage(conversation, m)
            /\ ret' = [op |-> "Stream", value |-> <<"wrapped">>, err |-> Nil]
            /\ gpc' = "recv"
            /\ ppc' = IF client = "OpenAI" THEN "start" ELSE "idle"
    /\ RetryReset
    /\ UNCHANGED <<client, cfgRetries>>
    /\ UNCHANGED extVars

\* AddMessage: s.conversation.Messages = append(..., message)
SessionAddMessage(role, content) ==
    /\ SessionReady
    /\ conversation' = AddMessage(conversation, role, content)
    /\ prior' = conversation
    /\ callMsg' = content
    /\ clientArg' = <<>>
    /\ clientOut' = NoOutcome
    /\ ret' = [op |-> "AddMessage", value |-> <<>>, err |-> Nil]
    /\ calls' = calls + 1
    /\ spc' = "idle"
    /\ StreamReset
    /\ UNCHANGED <<client, cfgRetries>>
    /\ UNCHANGED extVars

\* Clear: s.conversation.Messages = make([]Message, 0)
Clear ==
    /\ SessionReady
    /\ conversation' = <<>>
    /\ prior' = conversation
    /\ callMsg' = <<>>
    /\ clientArg' = <<>>
    /\ clientOut' = NoOutcome
    /\ ret' = [op |-> "Clear", value |-> <<>>, err |-> Nil]
    /\ calls' = calls + 1
    /\ spc' = "idle"
    /\ StreamReset
    /\ UNCHANGED <<client, cfgRetries>>
    /\ UNCHANGED extVars

\* ResetWithSystem: a new conversation holding the system message
ResetWithSystem(t) ==
    /\ SessionReady
    /\ conversation' = AddSystemMessage(<<>>, t)
    /\ prior' = conversation
    /\ callMsg' = t
    /\ clientArg' = <<>>
    /\ clientOut' = NoOutcome
    /\ ret' = [op |-> "ResetWithSystem", value |-> <<>>, err |-> Nil]
    /\ calls' = calls + 1
    /\ spc' = "idle"
    /\ StreamReset
    /\ UNCHANGED <<client, cfgRetries>>
    /\ UNCHANGED extVars


\* ------------------------------------------------------------------------
\* The goroutine of ChatSession.Stream, and the caller reading its channel
\* ------------------------------------------------------------------------
Concat(a, b) == a \o b

\* for chunk := range chunks { fullContent += chunk.Content
StreamRecv ==
    /\ gpc = "recv"
    /\ Len(chunks) > 0
    /\ chunk' = Head(chunks)
    /\ chunks' = Tail(chunks)
    /\ fullContent' = Concat(fullContent, Head(chunks).Content)
    /\ received' = Append(received, Head(chunks))
    /\ gpc' = "send"
    /\ UNCHANGED <<retryVars, ctxVars, sessionVars, ppc, framesRead, chunksClosed,
                   produced, wrapped, wrappedClosed, delivered>>
    /\ UNCHANGED extVars

\* if chunk.Finished: whether the chunk just forwarded commits the message
CommitsOn_Any(c) == TRUE

CommitsOn(c) == c.Finished

\* wrapped <- chunk (blocks while the channel is full)
StreamForward ==
    /\ gpc = "send"
    /\ Len(wrapped) < WrappedChanCap
    /\ wrapped' = Append(wrapped, chunk)
    /\ gpc' = IF CommitsOn(chunk) THEN "commit" ELSE "recv"
    /\ UNCHANGED <<retryVars, ctxVars, sessionVars, producerVars, fullContent, chunk,
                   received, wrappedClosed, delivered>>
    /\ UNCHANGED extVars

\* s.conversation.AddAssistantMessage(fullContent)
StreamCommit ==
    /\ gpc = "commit"
    /\ conversation' = AddAssistantMessage(conversation, fullContent)
    /\ gpc' = "recv"
    /\ UNCHANGED <<retryVars, ctxVars, producerVars, client, cfgRetries, spc, prior,
                   callMsg, clientArg, clientOut, ret, calls, fullContent, chunk,
                   received, wrapped, wrappedClosed, delivered>>
    /\ UNCHANGED extVars

\* the range loop ends when the source is closed and drained; the deferred
\* close(wrapped) runs
StreamEnd_Early ==
    /\ gpc = "recv"
    /\ chunks = <<>>
    /\ wrappedClosed' = TRUE
    /\ gpc' = "closed"
    /\ UNCHANGED <<retryVars, ctxVars, sessionVars, producerVars, fullContent, chunk,
                   received, wrapped, delivered>>
    /\ UNCHANGED extVars

StreamEnd ==
    /\ gpc = "recv"
    /\ chunks = <<>>
    /\ chunksClosed
    /\ wrappedClosed' = TRUE
    /\ gpc' = "closed"
    /\ UNCHANGED <<retryVars, ctxVars, sessionVars, producerVars, fullContent, chunk,
                   received, wrapped, delivered>>
    /\ UNCHANGED extVars

\* the caller takes a chunk from the channel Stream returned
CallerReceive ==
    /\ Len(wrapped) > 0
    /\ delivered' = Append(delivered, Head(wrapped))
    /\ wrapped' = Tail(wrapped)
    /\ UNCHANGED <<retryVars, ctxVars, sessionVars, producerVars, gpc, fullContent,
                   chunk, received, wrappedClosed>>
    /\ UNCHANGED extVars

\* ------------------------------------------------------------------------
\* The channel of an arbitrary AIClient: any chunks, then possibly a close
\* ------------------------------------------------------------------------
SourceSend(c) ==
    /\ client = "AIClient"
    /\ gpc \in {"recv", "send", "commit"}
    /\ ~chunksClosed
    /\ produced < MaxChunks
    /\ Len(chunks) < ProviderChanCap
    /\ chunks' = Append(chunks, c)
    /\ produced' = produced + 1
    /\ UNCHANGED <<retryVars, ctxVars, sessionVars, streamVars, ppc, framesRead,
                   chunksClosed>>
    /\ UNCHANGED extVars

SourceClose ==
    /\ client = "AIClient"
    /\ gpc \in {"recv", "send", "commit"}
    /\ ~chunksClosed
    /\ chunksClosed' = TRUE
    /\ UNCHANGED <<retryVars, ctxVars, sessionVars, streamVars, ppc, framesRead,
                   chunks, produced>>
    /\ UNCHANGED extVars

\* ------------------------------------------------------------------------
\* OpenAIClient.StreamConversation: the producer goroutine
\* ------------------------------------------------------------------------
\* err := ExecuteWithRetry(ctx, c.config.Retries, operation)
ProducerStart ==
    /\ ppc = "start"
    /\ EngineEntry("ExecuteWithRetry", cfgRetries, 0)
    /\ ppc' = "retrying"
    /\ UNCHANGED <<ctxVars, sessionVars, streamVars, framesRead, chunks, chunksClosed,
                   produced>>
    /\ UNCHANGED extVars

\* Errors streamRequest returns before it reads the body: httpClient.Do
\* failed (a timeout error when ctx.Err() != nil, else a connection error),
\* or the status was not 200.  A request on a context that is done fails.
RequestErrors ==
    IF ctxDone THEN {NewTimeoutError}
    ELSE {NewConnectionError, NewRateLimitError, NewServerError,
          NewInvalidAPIKeyError, NewBadRequestError}

StreamRequestFails(e) ==
    /\ ppc = "retrying"
    /\ rpc = "attempt"
    /\ e \in RequestErrors
    /\ AfterOperation(e)
    /\ UNCHANGED <<ctxVars, sessionVars, streamVars, producerVars>>
    /\ UNCHANGED extVars

\* status 200: the scanner is created
StreamRequestOpens ==
    /\ ppc = "retrying"
    /\ rpc = "attempt"
    /\ ~ctxDone
    /\ rpc' = "op"
    /\ framesRead' = 0
    /\ UNCHANGED <<engine, retries, baseDelay, attempt, lastErr, delay, rret, outcomes,
                   ctxVars, sessionVars, streamVars, ppc, chunks, chunksClosed, produced>>
    /\ UNCHANGED extVars

\* The lines the server can send: a content frame, a frame with a finish
\* reason, the [DONE] sentinel, and a line that yields nothing (no "data: "
\* prefix, malformed JSON, or no choices).
Frames ==
    {[type |-> "content", text |-> <<"a">>], [type |-> "finish", text |-> <<"b">>],
     [type |-> "done", text |-> <<>>], [type |-> "skip", text |-> <<>>]}

\* The lines Claude's server can send: a content_block_delta event with a
\* text delta, a message_stop event, the [DONE] sentinel, and a line that
\* yields nothing.
ClaudeFrames ==
    {[type |-> "content", text |-> <<"a">>], [type |-> "stop", text |-> <<"b">>],
     [type |-> "done", text |-> <<>>], [type |-> "skip", text |-> <<>>]}

FrameChunks_SkipEmits(f) ==
    CASE f.type = "content" -> <<StreamChunk(f.text, FALSE)>>
      [] f.type = "finish" -> <<StreamChunk(f.text, TRUE)>>
      [] f.type = "done" -> <<StreamChunk(<<>>, TRUE)>>
      [] f.type = "stop" -> <<StreamChunk(<<>>, TRUE)>>
      [] OTHER -> <<StreamChunk(<<>>, FALSE)>>

\* the chunks one scanned line puts on resultChan
FrameChunks(f) ==
    CASE f.type = "content" -> <<StreamChunk(f.text, FALSE)>>
      [] f.type = "finish" -> <<StreamChunk(f.text, TRUE)>>
      [] f.type = "done" -> <<StreamChunk(<<>>, TRUE)>>
      [] f.type = "stop" -> <<StreamChunk(<<>>, TRUE)>>
      [] OTHER -> <<>>

FrameReturns_Never(f) == FALSE

\* return nil after the [DONE] sentinel, after a finish-reason frame and
\* after a message_stop event
FrameReturns(f) == f.type \in {"done", "finish", "stop"}

\* one iteration of for scanner.Scan()
ScanFrameStep(f) ==
    /\ ppc = "retrying"
    /\ rpc = "op"
    /\ framesRead < MaxFrames
    /\ Len(chunks) + Len(FrameChunks(f)) <= ProviderChanCap
    /\ chunks' = chunks \o FrameChunks(f)
    /\ produced' = produced + Len(FrameChunks(f))
    /\ framesRead' = framesRead + 1
    /\ IF FrameReturns(f)
       THEN AfterOperation(Nil)
       ELSE UNCHANGED retryVars
    /\ UNCHANGED <<ctxVars, sessionVars, streamVars, ppc, chunksClosed>>

ScanFrame(f) ==
    /\ ScanFrameStep(f)
    /\ UNCHANGED extVars

\* scanner.Scan() returns false: the body ended (scanner.Err() == nil,
\* return nil) or the read failed (return NewStreamReadError(err))
ScanEnds(e) ==
    /\ ppc = "retrying"
    /\ rpc = "op"
    /\ e \in {Nil, NewStreamReadError}
    /\ AfterOperation(e)
    /\ UNCHANGED <<ctxVars, sessionVars, streamVars, producerVars>>
    /\ UNCHANGED extVars

ProducerFailChunk_NoChunk ==
    /\ ppc = "retrying"
    /\ rpc \in {"done", "cancelled"}
    /\ rret # Nil
    /\ ppc' = "closing"
    /\ UNCHANGED <<retryVars, ctxVars, sessionVars, streamVars, framesRead, chunks,
                   chunksClosed, produced>>
    /\ UNCHANGED extVars

\* if err != nil { resultChan <- StreamChunk{Content: "", Finished: true} }
ProducerFailChunk ==
    /\ ppc = "retrying"
    /\ rpc \in {"done", "cancelled"}
    /\ rret # Nil
    /\ Len(chunks) < ProviderChanCap
    /\ chunks' = Append(chunks, StreamChunk(<<>>, TRUE))
    /\ produced' = produced + 1
    /\ ppc' = "closing"
    /\ UNCHANGED <<retryVars, ctxVars, sessionVars, streamVars, framesRead, chunksClosed>>
    /\ UNCHANGED extVars

\* defer close(resultChan)
ProducerClose ==
    /\ \/ ppc = "closing"
       \/ ppc = "retrying" /\ rpc \in {"done", "cancelled"} /\ rret = Nil
    /\ chunksClosed' = TRUE
    /\ ppc' = "closed"
    /\ UNCHANGED <<retryVars, ctxVars, sessionVars, streamVars, framesRead, chunks,
                   produced>>
    /\ UNCHANGED extVars

\* ------------------------------------------------------------------------
\* Specification of a session used by one caller
\* ------------------------------------------------------------------------
\* The histories a session is taken up with: that of NewChatSession, that of
\* NewChatSessionWithSystemMessage, and that of a session after one
\* completed exchange.
InitialHistories ==
    {<<>>}
    \cup {AddSystemMessage(<<>>, t) : t \in SystemTexts}
    \cup {AddAssistantMessage(AddUserMessage(<<>>, m), <<"a">>) : m \in UserTexts}

InitSession ==
    /\ client \in ClientKinds
    /\ cfgRetries \in 0..MaxClientRetries
    /\ conversation \in InitialHistories
    /\ CallIdle
    /\ RetryIdle
    /\ CtxLive
    /\ ProducerIdle
    /\ StreamIdle /\ ConfigUnused /\ BackoffUnused
    /\ ErrorsUnused /\ SendConversationIdle /\ FanOutUnused /\ MergeUnused

NextSession ==
    \/ \E m \in UserTexts : Send(m)
    \/ \E o \in SendOutcomes : SendConversationReturns(o)
    \/ \E m \in UserTexts : SendWithMetadata(m)
    \/ \E o \in MetadataOutcomes : SendConversationWithMetadataReturns(o)
    \/ \E m \in UserTexts, e \in {Nil} \cup CallErrors : Stream(m, e)
    \/ \E r \in Roles, t \in UserTexts : SessionAddMessage(r, t)
    \/ Clear
    \/ \E t \in SystemTexts : ResetWithSystem(t)
    \/ StreamRecv
    \/ StreamForward
    \/ StreamCommit
    \/ StreamEnd
    \/ CallerReceive
    \/ \E c \in StreamChunks : SourceSend(c)
    \/ SourceClose
    \/ ProducerStart
    \/ \E e \in RequestErrors : StreamRequestFails(e)
    \/ StreamRequestOpens
    \/ \E f \in Frames : ScanFrame(f)
    \/ \E e \in {Nil, NewStreamReadError} : ScanEnds(e)
    \/ SelectCtxDone
    \/ SelectTimeAfter
    \/ ProducerFailChunk
    \/ ProducerClose
    \/ \E e \in ContextErrors : CtxCancel(e)

SpecSession == InitSession /\ [][NextSession]_vars


\* ------------------------------------------------------------------------
\* Claims about the retry engine (checked under SpecRetry)
\* ------------------------------------------------------------------------
Returned == rpc \in {"done", "cancelled"}
Invocations == Len(outcomes)

\* C7: with retries = n >= 0 the operation is invoked at most n + 1 times,
\* exactly once when n = 0, and the engine never waits after invocation
\* number n + 1.
C7_AtMostRetriesPlusOne ==
    retries >= 0 =>
        /\ Invocations <= retries + 1
        /\ (rpc = "wait" => Invocations <= retries)
        /\ (retries = 0 /\ Returned => Invocations = 1)

C7_Witness ==
    /\ rpc = "done"
    /\ retries >= 1
    /\ Invocations = retries + 1
    /\ IsRetryableError(outcomes[Invocations])

\* C8: every invocation but the last one failed with a retryable error, and
\* the engine waits only after a retryable failure: a success or a
\* non-retryable error is followed by neither an invocation nor a wait.
C8_RetryOnlyRetryable ==
    /\ \A i \in 1..(Invocations - 1) :
          outcomes[i] # Nil /\ IsRetryableError(outcomes[i])
    /\ rpc \in {"attempt", "wait"} /\ Invocations > 0 =>
          outcomes[Invocations] # Nil /\ IsRetryableError(outcomes[Invocations])

C8_Witness ==
    /\ rpc = "done"
    /\ retries >= 2
    /\ Invocations = 2
    /\ outcomes[2] # Nil
    /\ ~IsRetryableError(outcomes[2])

\* C9: a return that does not come from the cancellation case returns the
\* result of the last invocation unchanged: nil, the non-retryable error,
\* or the retryable error of the final allowed attempt.
C9_ReturnsLastOutcome ==
    rpc = "done" /\ Invocations > 0 => rret = outcomes[Invocations]

C9_Witness ==
    /\ rpc = "done"
    /\ retries >= 1
    /\ Invocations = retries + 1
    /\ rret # Nil
    /\ IsRetryableError(rret)
    /\ rret = outcomes[Invocations]

\* C10: once the context is cancelled while the engine is at its
\* inter-attempt wait, the only way out of the wait is the return of
\* ctx.Err(); the operation is not invoked again.
C10_CancelEndsWait ==
    [][(rpc = "wait" /\ ctxDone) =>
          (rpc' = "wait" \/ (rpc' = "cancelled" /\ rret' = ctxErr))]_vars

\* ------------------------------------------------------------------------
\* Claims about ChatSession (checked under SpecSession)
\* ------------------------------------------------------------------------
UserMsg == Message("user", callMsg)
CallReturned(op) == spc = "idle" /\ ret.op = op

\* C1: when SendConversation (inside Send) or StreamConversation (inside
\* Stream) returns an error, the conversation after the call is exactly the
\* history the call found, and the caller gets the client's error.
C1_ImmediateFailureRestoresHistory ==
    (CallReturned("Send") \/ CallReturned("Stream")) /\ clientOut.err # Nil =>
        /\ conversation = prior
        /\ ret.err = clientOut.err

C1_Witness ==
    /\ CallReturned("Stream")
    /\ clientOut.err # Nil
    /\ ret.err = clientOut.err
    /\ Len(prior) >= 1
    /\ conversation = prior

\* C2: Send hands the client the history plus the user message; when the
\* client succeeds with text r, Send returns r and the conversation is the
\* history plus the user message plus the assistant message r.
C2_SendSuccessAppendsTwo ==
    /\ spc = "Send" =>
          /\ clientArg = Append(prior, UserMsg)
          /\ conversation = clientArg
    /\ CallReturned("Send") /\ clientOut.err = Nil =>
          /\ clientArg = Append(prior, UserMsg)
          /\ ret.value = clientOut.value
          /\ ret.err = Nil
          /\ conversation = prior \o <<UserMsg, Message("assistant", clientOut.value)>>
          /\ Len(conversation) = Len(prior) + 2

C2_Witness ==
    /\ CallReturned("Send")
    /\ clientOut.err = Nil
    /\ clientOut.value = <<"a">>
    /\ Len(prior) >= 1
    /\ Len(conversation) = Len(prior) + 2

RECURSIVE ConcatContents(_)
ConcatContents(cs) ==
    IF cs = <<>> THEN <<>> ELSE Head(cs).Content \o ConcatContents(Tail(cs))

\* chunks of the current stream whose loop iteration has run to its end
Processed == IF gpc \in {"send", "commit"} THEN Len(received) - 1 ELSE Len(received)

\* one assistant message per finished chunk among the first k received,
\* holding everything received up to and including that chunk
RECURSIVE FinishedPrefixes(_)
FinishedPrefixes(k) ==
    IF k = 0 THEN <<>>
    ELSE FinishedPrefixes(k - 1) \o
         (IF received[k].Finished
          THEN <<Message("assistant", ConcatContents(SubSeq(received, 1, k)))>>
          ELSE <<>>)

\* C3: a stream appends an assistant message only on a chunk with
\* finished = true, holding the in-order concatenation of all chunks received
\* up to and including it; a source that closes without a finished chunk
\* leaves no assistant message.
C3_CommitOnlyOnFinishedChunk ==
    gpc # "none" =>
        conversation = Append(prior, UserMsg) \o FinishedPrefixes(Processed)

C3_Witness ==
    /\ gpc = "closed"
    /\ Len(received) = 2
    /\ received[1] = StreamChunk(<<"a">>, FALSE)
    /\ received[2] = StreamChunk(<<"b">>, TRUE)
    /\ conversation = Append(prior, UserMsg) \o <<Message("assistant", <<"a", "b">>)>>

\* the user message of the last call is in the conversation with no
\* assistant message after it
Dangling ==
    /\ Len(conversation) > Len(prior)
    /\ SubSeq(conversation, 1, Len(prior)) = prior
    /\ conversation[Len(prior) + 1] = UserMsg
    /\ \/ Len(conversation) = Len(prior) + 1
       \/ conversation[Len(prior) + 2].Role # "assistant"

\* the stream of the last call is over and its request failed
StreamRequestFailed ==
    /\ CallReturned("Stream")
    /\ client = "OpenAI"
    /\ gpc = "closed"
    /\ rret # Nil

\* the stream of the last call is over and its request ended without a
\* terminal chunk
StreamEndedUnterminated ==
    /\ CallReturned("Stream")
    /\ client = "OpenAI"
    /\ gpc = "closed"
    /\ rret = Nil
    /\ \A k \in 1..Len(received) : ~received[k].Finished

\* C4: after a call that failed (an error returned by Send, SendWithMetadata
\* or Stream, or a stream whose request failed or ended without a terminal
\* chunk) the user message of that call is not left unanswered in the
\* conversation.
C4_NoDanglingUserMessage ==
    \/ (CallReturned("Send") \/ CallReturned("SendWithMetadata")
            \/ CallReturned("Stream")) /\ ret.err # Nil
    \/ StreamRequestFailed
    \/ StreamEndedUnterminated
    => ~Dangling

\* C5: after a stream whose underlying request failed, the conversation is
\* exactly the history the Stream call found.
C5_FailedStreamRestoresHistory ==
    StreamRequestFailed => conversation = prior

\* C6: SendWithMetadata changes the conversation as Send does for the same
\* history, message and client outcome: the history itself on error, the
\* history plus the user message plus the assistant message on success.
C6_MetadataSameTransaction ==
    CallReturned("SendWithMetadata") =>
        LET given == Append(prior, UserMsg)
            text == IF clientOut.err = Nil THEN clientOut.value.Content ELSE <<>>
        IN /\ clientArg = given
           /\ conversation = SendFinish(given, text, clientOut.err).conversation
           /\ clientOut.err # Nil => conversation = prior
           /\ clientOut.err = Nil =>
                 conversation = prior \o <<UserMsg, Message("assistant", text)>>
           /\ ret.err = clientOut.err
           /\ clientOut.err = Nil => ret.value = clientOut.value

C6_Witness ==
    /\ CallReturned("SendWithMetadata")
    /\ clientOut.err # Nil
    /\ Len(prior) >= 1
    /\ conversation = prior

\* ------------------------------------------------------------------------
\* SendConversation of a provider client (OpenAI, Claude, Gemini): one
\* ExecuteWithRetry call whose operation is sendRequest
\* ------------------------------------------------------------------------
Providers == {"OpenAI", "Claude", "Gemini"}

NewMissingFieldError == ClientError("parse", "missing_field")

\* What one sendRequest, followed by the check of the response, leaves in
\* (result, err).  Once ctx is done httpClient.Do fails and ctx.Err() is not
\* nil, or the body can no longer be read.
SendRequestOutcomes ==
    IF ctxDone
    THEN {[value |-> <<>>, err |-> e] : e \in {NewTimeoutError, NewConnectionError}}
    ELSE {[value |-> <<"a">>, err |-> Nil]}
         \cup {[value |-> <<>>, err |-> e] :
                 e \in {NewConnectionError, NewRateLimitError, NewServerError,
                        NewInvalidAPIKeyError, NewMissingFieldError}}

\* err := ExecuteWithRetry(ctx, c.config.Retries, operation)
ProviderSendConversation ==
    /\ client \in Providers
    /\ scpc = "idle"
    /\ scpc' = "running"
    /\ scResult' = <<>>
    /\ EngineEntry("ExecuteWithRetry", cfgRetries, 0)
    /\ UNCHANGED <<scRet, ctxVars, producerVars, sessionVars, streamVars,
                   errVars, fanVars, mergeVars, tailVars>>

\* operation() is entered: the request is dispatched
SendRequestStart ==
    /\ scpc = "running"
    /\ rpc = "attempt"
    /\ rpc' = "op"
    /\ UNCHANGED <<engine, retries, baseDelay, attempt, lastErr, delay, rret, outcomes,
                   ctxVars, producerVars, sessionVars, streamVars, extVars>>

\* operation() returns
SendRequestReturns(o) ==
    /\ scpc = "running"
    /\ rpc = "op"
    /\ o \in SendRequestOutcomes
    /\ AfterOperation(o.err)
    /\ scResult' = IF o.err = Nil THEN o.value ELSE scResult
    /\ UNCHANGED <<scpc, scRet, ctxVars, producerVars, sessionVars, streamVars,
                   errVars, fanVars, mergeVars, tailVars>>

\* if err != nil { return "", err }; return result, nil
SendConversationReturn ==
    /\ scpc = "running"
    /\ rpc \in {"done", "cancelled"}
    /\ scpc' = "returned"
    /\ scRet' = IF rret # Nil THEN [value |-> <<>>, err |-> rret]
                ELSE [value |-> scResult, err |-> Nil]
    /\ UNCHANGED <<scResult, retryVars, ctxVars, producerVars, sessionVars,
                   streamVars, errVars, fanVars, mergeVars, tailVars>>

\* The caller's context is cancelled, or its deadline passes, while
\* SendConversation is running and the retry engine has not returned.
CancelDuringSend(e) ==
    /\ scpc = "running"
    /\ rpc \in {"attempt", "op", "wait"}
    /\ ~ctxDone
    /\ ctxDone' = TRUE
    /\ ctxErr' = e
    /\ UNCHANGED <<retryVars, producerVars, sessionVars, streamVars, extVars>>

InitSendConversation ==
    /\ client \in Providers
    /\ cfgRetries \in 0..MaxClientRetries
    /\ conversation = <<>>
    /\ CallIdle /\ RetryIdle /\ CtxLive /\ ProducerIdle /\ StreamIdle /\ ConfigUnused /\ BackoffUnused
    /\ ErrorsUnused /\ SendConversationIdle /\ FanOutUnused /\ MergeUnused

NextSendConversation ==
    \/ ProviderSendConversation
    \/ SendRequestStart
    \/ \E o \in SendRequestOutcomes : SendRequestReturns(o)
    \/ SelectCtxDone
    \/ SelectTimeAfter
    \/ SendConversationReturn
    \/ \E e \in ContextErrors : CancelDuringSend(e)

SpecSendConversation == InitSendConversation /\ [][NextSendConversation]_vars

\* C11: when the context is cancelled (or its deadline passes) during a
\* provider's SendConversation and the call returns an error, that error is
\* the cancellation outcome ctx.Err(), not a ClientError of the taxonomy.
C11_CancellationIsDistinct ==
    (scpc = "returned" /\ ctxDone /\ scRet.err # Nil)
        => (scRet.err \in ContextErrors /\ scRet.err.kind # "ClientError")

\* ------------------------------------------------------------------------
\* Error classification: IsRetryableError, IsAuthenticationError and
\* ClientError.Is, applied to error values a caller holds
\* ------------------------------------------------------------------------
ErrorTypes == {"network", "api", "auth", "config", "parse", "stream"}
ErrorCodes == {"rate_limit", "server_error", "bad_request"}

\* Message and Cause as (message, cause) pairs
ErrorDetails == {<<"m1", "none">>, <<"m2", "io">>}

\* an error value with its Message and Cause
Detailed(e, det) ==
    [kind |-> e.kind, Type |-> e.Type, Code |-> e.Code, temp |-> e.temp,
     Message |-> det[1], Cause |-> det[2]]

\* &ClientError{Type, Code, Message, Cause}: the fields are exported, so
\* every combination can be built
ClientErrors ==
    {Detailed(ClientError(t, c), det) :
        t \in ErrorTypes, c \in ErrorCodes, det \in ErrorDetails}

\* error values that are not a *ClientError: nil, the context errors, a
\* net.Error that is neither timeout nor temporary, and a ClientError
\* wrapped by fmt.Errorf("%w"), which a type assertion does not unwrap
OtherErrors ==
    {Detailed(e, <<"m1", "none">>) :
        e \in {Nil, ContextCanceled, ContextDeadlineExceeded,
               ErrValue("net.Error", "network", "rate_limit", FALSE),
               ErrValue("error", "auth", "rate_limit", FALSE)}}

ErrorValues == ClientErrors \cup OtherErrors

IsAuthenticationError_AnyKind(err) == err.Type = "auth"

IsAuthenticationError(err) ==
    IF err.kind = "ClientError" THEN err.Type = "auth" ELSE FALSE

Is_SameMessage(e, target) ==
    IF target.kind = "ClientError"
    THEN e.Type = target.Type /\ e.Code = target.Code /\ e.Message = target.Message
    ELSE FALSE

\* func (e *ClientError) Is(target error) bool
Is(e, target) ==
    IF target.kind = "ClientError"
    THEN e.Type = target.Type /\ e.Code = target.Code
    ELSE FALSE

Answer(fn, a, b, v) == [fn |-> fn, a |-> a, b |-> b, value |-> v]

CallIsRetryableError(e) ==
    /\ answers' = answers \cup {Answer("IsRetryableError", e, e, IsRetryableError(e))}
    /\ UNCHANGED <<errX, errY, retryVars, ctxVars, producerVars, sessionVars,
                   streamVars, sendVars, fanVars, mergeVars, tailVars>>

CallIsAuthenticationError(e) ==
    /\ answers' = answers \cup {Answer("IsAuthenticationError", e, e,
                                        IsAuthenticationError(e))}
    /\ UNCHANGED <<errX, errY, retryVars, ctxVars, producerVars, sessionVars,
                   streamVars, sendVars, fanVars, mergeVars, tailVars>>

\* e.Is(target): the receiver is a *ClientError
CallIs(e, target) ==
    /\ e.kind = "ClientError"
    /\ answers' = answers \cup {Answer("Is", e, target, Is(e, target))}
    /\ UNCHANGED <<errX, errY, retryVars, ctxVars, producerVars, sessionVars,
                   streamVars, sendVars, fanVars, mergeVars, tailVars>>

InitErrors ==
    /\ errX \in ErrorValues
    /\ errY \in ErrorValues
    /\ answers = {}
    /\ RetryIdle /\ CtxLive /\ ProducerIdle /\ StreamIdle /\ ConfigUnused /\ BackoffUnused /\ SessionUnused
    /\ SendConversationIdle /\ FanOutUnused /\ MergeUnused

NextErrors ==
    \/ \E e \in {errX, errY} : CallIsRetryableError(e)
    \/ CallIsAuthenticationError(errX)
    \/ \E p \in {<<errX, errY>>, <<errY, errX>>} : CallIs(p[1], p[2])

SpecErrors == InitErrors /\ [][NextErrors]_vars

AnswersOf(fn) == {r \in answers : r.fn = fn}

\* C12: IsRetryableError is true for a ClientError exactly when its Type is
\* network, or its Type is api and its Code is rate_limit or server_error;
\* two ClientErrors with equal Type and Code get the same answer whatever
\* their Message and Cause.
C12_RetryableByTypeAndCode ==
    /\ \A r \in AnswersOf("IsRetryableError") :
          r.a.kind = "ClientError" =>
            (r.value <=> (\/ r.a.Type = "network"
                          \/ (r.a.Type = "api"
                               /\ r.a.Code \in {"rate_limit", "server_error"})))
    /\ \A r1, r2 \in AnswersOf("IsRetryableError") :
          (/\ r1.a.kind = "ClientError" /\ r2.a.kind = "ClientError"
           /\ r1.a.Type = r2.a.Type /\ r1.a.Code = r2.a.Code)
            => r1.value = r2.value

C12_Witness ==
    \E r1, r2 \in AnswersOf("IsRetryableError") :
        /\ r1.a.kind = "ClientError" /\ r2.a.kind = "ClientError"
        /\ r1.a.Type = "api" /\ r2.a.Type = "api"
        /\ r1.a.Code = "bad_request" /\ r2.a.Code = "bad_request"
        /\ r1.a.Message # r2.a.Message /\ r1.a.Cause # r2.a.Cause
        /\ ~r1.value /\ ~r2.value

\* C13: IsAuthenticationError is true exactly when its argument is a
\* ClientError whose Type is auth.
C13_AuthOnlyForAuthClientError ==
    \A r \in AnswersOf("IsAuthenticationError") :
        r.value <=> (r.a.kind = "ClientError" /\ r.a.Type = "auth")

C13_Witness ==
    /\ \E r \in AnswersOf("IsAuthenticationError") :
          r.value /\ r.a.kind = "ClientError" /\ r.a.Type = "auth"
    /\ \E r \in AnswersOf("IsRetryableError") : r.a = errX /\ ~r.value

\* C14: e.Is(target) is true exactly when target is a ClientError with the
\* Type and Code of e, whatever the Message and Cause of either; it is
\* reflexive and symmetric on ClientErrors.
C14_IsComparesTypeAndCode ==
    /\ \A r \in AnswersOf("Is") :
          /\ r.value <=> (/\ r.b.kind = "ClientError"
                           /\ r.a.Type = r.b.Type /\ r.a.Code = r.b.Code)
          /\ r.a = r.b => r.value
    /\ \A r1, r2 \in AnswersOf("Is") :
          (r1.a = r2.b /\ r1.b = r2.a) => r1.value = r2.value

C14_Witness ==
    \E r1, r2 \in AnswersOf("Is") :
        /\ r1.a = r2.b /\ r1.b = r2.a
        /\ r1.a.Message # r1.b.Message /\ r1.a.Cause # r1.b.Cause
        /\ r1.value /\ r2.value

\* ------------------------------------------------------------------------
\* ExecuteParallel and ExecuteParallelConversation: the caller's loop, one
\* goroutine per client, the WaitGroup
\* ------------------------------------------------------------------------
nonFanVars == <<retryVars, ctxVars, producerVars, sessionVars, streamVars,
                errVars, sendVars, mergeVars, tailVars>>

FanFunctions == {"ExecuteParallel", "ExecuteParallelConversation"}

\* A client as the fan-out sees it: Name() and SupportsConversations().
\* The providers of this package support conversations; "Custom" is another
\* implementation of AIClient that does not.
FanClient(name, conv) == [Name |-> name, Conv |-> conv]
FanClientKinds == {FanClient("OpenAI", TRUE), FanClient("Custom", FALSE)}

RECURSIVE SeqsUpTo(_, _)
SeqsUpTo(S, n) ==
    IF n = 0 THEN {<<>>}
    ELSE LET shorter == SeqsUpTo(S, n - 1) IN
         shorter \cup {Append(q, x) : q \in shorter, x \in S}

ClientLists == SeqsUpTo(FanClientKinds, MaxClients)

FanConversations ==
    {<<>>,
     AddUserMessage(<<>>, <<"q">>),
     AddAssistantMessage(AddUserMessage(<<>>, <<"q">>), <<"a">>),
     AddUserMessage(AddAssistantMessage(AddUserMessage(<<>>, <<"q">>), <<"a">>), <<"r">>)}

\* (result, err) as a client method returns them.  A provider returns "" with
\* an error; the interface does not bind other implementations to that.
ClientReturnValues(c) ==
    {[value |-> <<"a">>, err |-> Nil], [value |-> <<>>, err |-> NewInvalidAPIKeyError]}
    \cup (IF c.Name = "Custom"
          THEN {[value |-> <<"p">>, err |-> NewServerError]}
          ELSE {})

\* ClientError{Type: ErrorTypeConfig, Code: "config_error"}
NewConfigError == ClientError("config", "config_error")

\* the zero ParallelResult of make([]ParallelResult, len(clients))
ZeroResult == [ClientName |-> "", Result |-> <<>>, Error |-> Nil]

ParallelResult_NoError(name, out) ==
    [ClientName |-> name, Result |-> out.value, Error |-> Nil]

\* ParallelResult{ClientName: c.Name(), Result: result, Error: err}
ParallelResult(name, out) ==
    [ClientName |-> name, Result |-> out.value, Error |-> out.err]

SlotOf_First(index) == 1

SlotOf_Neighbour(index) == IF index > 1 THEN index - 1 ELSE index

\* results[index]
SlotOf(index) == index

JoinReady_NoWait(n) == TRUE

\* wg.Wait() returns when the counter is zero
JoinReady(n) == n = 0

Fallback_LastMessage(msgs) ==
    IF Len(msgs) > 0 THEN "prompt" ELSE "empty"

\* The branch taken for a client without conversation support.
Fallback(msgs) ==
    IF Len(msgs) > 0
    THEN IF msgs[Len(msgs)].Role = "user" THEN "prompt" ELSE "no_user"
    ELSE "empty"

NotCalled == [called |-> FALSE, value |-> <<>>, err |-> Nil]
Called(o) == [called |-> TRUE, value |-> o.value, err |-> o.err]

\* results := make([]ParallelResult, len(clients)); var wg sync.WaitGroup
FanOutCall(f) ==
    /\ fpc = "idle"
    /\ fanFn' = f
    /\ fpc' = "spawning"
    /\ spawned' = 0
    /\ wg' = 0
    /\ results' = [i \in 1..Len(fanClients) |-> ZeroResult]
    /\ tpc' = [i \in 1..Len(fanClients) |-> "none"]
    /\ taskOut' = [i \in 1..Len(fanClients) |-> NoOutcome]
    /\ clientRets' = [i \in 1..Len(fanClients) |-> NotCalled]
    /\ promptCalls' = [i \in 1..Len(fanClients) |-> <<>>]
    /\ UNCHANGED <<fanClients, fanPrompt, fanConv, nonFanVars>>

\* one iteration of the for loop: wg.Add(1); go func(index, c) {...}(i, client)
FanOutSpawn ==
    /\ fpc = "spawning"
    /\ spawned < Len(fanClients)
    /\ wg' = wg + 1
    /\ tpc' = [tpc EXCEPT ![spawned + 1] = "start"]
    /\ spawned' = spawned + 1
    /\ UNCHANGED <<fpc, fanFn, fanClients, fanPrompt, fanConv, taskOut, results,
                   clientRets, promptCalls, nonFanVars>>

\* The goroutine of client number i runs up to the client method it calls,
\* or up to the error it builds without calling the client.
TaskStart(i) ==
    LET c == fanClients[i]
        branch == IF fanFn = "ExecuteParallel" THEN "prompt_arg"
                  ELSE IF c.Conv THEN "conversation"
                  ELSE Fallback(fanConv)
    IN
    /\ fpc # "idle"
    /\ i \in 1..Len(fanClients)
    /\ tpc[i] = "start"
    /\ CASE branch = "prompt_arg" ->
              /\ promptCalls' = [promptCalls EXCEPT ![i] = Append(@, fanPrompt)]
              /\ tpc' = [tpc EXCEPT ![i] = "calling"]
              /\ UNCHANGED taskOut
         [] branch = "conversation" ->
              /\ tpc' = [tpc EXCEPT ![i] = "calling"]
              /\ UNCHANGED <<promptCalls, taskOut>>
         [] branch = "prompt" ->
              /\ promptCalls' = [promptCalls EXCEPT
                                   ![i] = Append(@, fanConv[Len(fanConv)].Content)]
              /\ tpc' = [tpc EXCEPT ![i] = "calling"]
              /\ UNCHANGED taskOut
         [] OTHER ->
              /\ taskOut' = [taskOut EXCEPT
                               ![i] = [value |-> <<>>, err |-> NewConfigError]]
              /\ tpc' = [tpc EXCEPT ![i] = "assign"]
              /\ UNCHANGED promptCalls
    /\ UNCHANGED <<fpc, fanFn, fanClients, fanPrompt, fanConv, spawned, results, wg,
                   clientRets, nonFanVars>>

\* result, err = the client's SendPrompt / SendConversation returns
TaskClientReturns(i, o) ==
    /\ fpc # "idle"
    /\ i \in 1..Len(fanClients)
    /\ tpc[i] = "calling"
    /\ o \in ClientReturnValues(fanClients[i])
    /\ taskOut' = [taskOut EXCEPT ![i] = o]
    /\ clientRets' = [clientRets EXCEPT ![i] = Called(o)]
    /\ tpc' = [tpc EXCEPT ![i] = "assign"]
    /\ UNCHANGED <<fpc, fanFn, fanClients, fanPrompt, fanConv, spawned, results, wg,
                   promptCalls, nonFanVars>>

\* results[index] = ParallelResult{...}
TaskAssign(i) ==
    /\ fpc # "idle"
    /\ i \in 1..Len(fanClients)
    /\ tpc[i] = "assign"
    /\ results' = [results EXCEPT
                     ![SlotOf(i)] = ParallelResult(fanClients[i].Name, taskOut[i])]
    /\ tpc' = [tpc EXCEPT ![i] = "assigned"]
    /\ UNCHANGED <<fpc, fanFn, fanClients, fanPrompt, fanConv, spawned, taskOut, wg,
                   clientRets, promptCalls, nonFanVars>>

\* the deferred wg.Done()
TaskDone(i) ==
    /\ fpc # "idle"
    /\ i \in 1..Len(fanClients)
    /\ tpc[i] = "assigned"
    /\ wg' = wg - 1
    /\ tpc' = [tpc EXCEPT ![i] = "done"]
    /\ UNCHANGED <<fpc, fanFn, fanClients, fanPrompt, fanConv, spawned, taskOut,
                   results, clientRets, promptCalls, nonFanVars>>

\* wg.Wait(); return results
FanOutReturn ==
    /\ fpc = "spawning"
    /\ spawned = Len(fanClients)
    /\ JoinReady(wg)
    /\ fpc' = "returned"
    /\ UNCHANGED <<fanFn, fanClients, fanPrompt, fanConv, spawned, tpc, taskOut,
                   results, wg, clientRets, promptCalls, nonFanVars>>

InitFanOut ==
    /\ fanClients \in ClientLists
    /\ fanPrompt \in UserTexts
    /\ fanConv \in FanConversations
    /\ fanFn = "ExecuteParallel"
    /\ FanOutLocals
    /\ RetryIdle /\ CtxLive /\ ProducerIdle /\ StreamIdle /\ ConfigUnused /\ BackoffUnused /\ SessionUnused
    /\ ErrorsUnused /\ SendConversationIdle /\ MergeUnused

NextFanOut ==
    \/ \E f \in FanFunctions : FanOutCall(f)
    \/ FanOutSpawn
    \/ \E i \in 1..MaxClients : TaskStart(i)
    \/ \E i \in 1..MaxClients :
          \E o \in ClientReturnValues(FanClient("Custom", FALSE)) :
             TaskClientReturns(i, o)
    \/ \E i \in 1..MaxClients : TaskAssign(i)
    \/ \E i \in 1..MaxClients : TaskDone(i)
    \/ FanOutReturn

SpecFanOut == InitFanOut /\ [][NextFanOut]_vars

FanReturned(f) == fpc = "returned" /\ fanFn = f
Slots == 1..Len(fanClients)
SlotIsClientReturn(i) ==
    /\ clientRets[i].called
    /\ results[i].Result = clientRets[i].value
    /\ results[i].Error = clientRets[i].err

\* C15: what ExecuteParallel / ExecuteParallelConversation return has one
\* element per client, and element i carries the name of clients[i] and what
\* clients[i] returned, in whatever order the clients completed.
C15_SlotsFollowClientOrder ==
    fpc = "returned" =>
        /\ Len(results) = Len(fanClients)
        /\ \A i \in Slots :
              /\ results[i].ClientName = fanClients[i].Name
              /\ clientRets[i].called => SlotIsClientReturn(i)

C15_Witness ==
    /\ fpc = "returned"
    /\ Len(fanClients) = 2
    /\ fanClients[1].Name # fanClients[2].Name
    /\ clientRets[1].called /\ clientRets[2].called
    /\ clientRets[1].err # clientRets[2].err
    /\ results[1].Error = clientRets[1].err
    /\ results[2].Error = clientRets[2].err

\* C16: ExecuteParallel / ExecuteParallelConversation return only after every
\* goroutine has written its slot and finished: at the return no slot is
\* unwritten and no goroutine is still running.
C16_ReturnAfterAllTasks ==
    fpc = "returned" =>
        /\ wg = 0
        /\ \A i \in Slots : tpc[i] = "done" /\ results[i] # ZeroResult

C16_Witness ==
    /\ fpc = "returned"
    /\ Len(fanClients) = 2
    /\ \A i \in Slots : tpc[i] = "done" /\ clientRets[i].called

\* C17: a client that fails has the error in its own slot, and every other
\* slot holds exactly what its own client returned.
C17_FailureStaysInItsSlot ==
    fpc = "returned" =>
        \A i \in Slots :
            (clientRets[i].called /\ clientRets[i].err # Nil) =>
                /\ results[i].Error = clientRets[i].err
                /\ \A j \in Slots \ {i} :
                      clientRets[j].called =>
                        /\ results[j].Result = clientRets[j].value
                        /\ results[j].Error = clientRets[j].err

C17_Witness ==
    /\ fpc = "returned"
    /\ Len(fanClients) = 2
    /\ clientRets[1].called /\ clientRets[1].err # Nil
    /\ results[1].Error # Nil
    /\ clientRets[2].called /\ clientRets[2].err = Nil
    /\ results[2].Error = Nil /\ results[2].Result = <<"a">>

LastIsUser(msgs) == Len(msgs) > 0 /\ msgs[Len(msgs)].Role = "user"

\* C18: in ExecuteParallelConversation a client without conversation support
\* is sent the content of the last message when that message is a user
\* message, and its slot holds what SendPrompt returned; otherwise its slot
\* holds a ClientError of type config, its SendPrompt is never invoked, and
\* the slots of the clients with conversation support hold what those
\* clients returned.
C18_FallbackToLastUserMessage ==
    FanReturned("ExecuteParallelConversation") =>
        \A i \in Slots :
            ~fanClients[i].Conv =>
                IF LastIsUser(fanConv)
                THEN /\ promptCalls[i] = <<fanConv[Len(fanConv)].Content>>
                     /\ SlotIsClientReturn(i)
                ELSE /\ results[i].Error.kind = "ClientError"
                     /\ results[i].Error.Type = "config"
                     /\ promptCalls[i] = <<>>
                     /\ ~clientRets[i].called
                     /\ \A j \in Slots : fanClients[j].Conv => SlotIsClientReturn(j)

C18_Witness ==
    /\ FanReturned("ExecuteParallelConversation")
    /\ Len(fanClients) = 2
    /\ ~fanClients[1].Conv /\ fanClients[2].Conv
    /\ Len(fanConv) > 0 /\ ~LastIsUser(fanConv)
    /\ results[1].Error = NewConfigError
    /\ results[2].Result = <<"a">>

\* C19: every ParallelResult returned has exactly one of Result and Error
\* populated: a slot with an error has an empty Result, and a slot without
\* an error carries the response of its client.
C19_ResultXorError ==
    fpc = "returned" =>
        \A i \in Slots :
            /\ results[i].Error # Nil => results[i].Result = <<>>
            /\ (results[i].Error = Nil /\ clientRets[i].called)
                  => results[i].Result = clientRets[i].value

\* ------------------------------------------------------------------------
\* MergeStreamChunks reading a channel that its sender fills and may close
\* ------------------------------------------------------------------------
nonMergeVars == <<retryVars, ctxVars, producerVars, sessionVars, streamVars,
                  errVars, sendVars, fanVars, tailVars>>

\* the sender puts a chunk on the channel
ChannelSend(c) ==
    /\ ~mclosed
    /\ Len(msent) < MaxMergeChunks
    /\ mchan' = Append(mchan, c)
    /\ msent' = Append(msent, c)
    /\ UNCHANGED <<mclosed, mpc, mresult, mtaken, mret, nonMergeVars>>

\* the sender closes the channel
ChannelClose ==
    /\ ~mclosed
    /\ mclosed' = TRUE
    /\ UNCHANGED <<mchan, msent, mpc, mresult, mtaken, mret, nonMergeVars>>

\* var result string
MergeStreamChunksCall ==
    /\ mpc = "idle"
    /\ mpc' = "range"
    /\ mresult' = <<>>
    /\ UNCHANGED <<mchan, mclosed, msent, mtaken, mret, nonMergeVars>>

MergeBreaks_Never(c) == FALSE

\* if chunk.Finished { break }
MergeBreaks(c) == c.Finished

\* one iteration of for chunk := range chunks; after the break the function
\* returns result, nil
MergeReceive ==
    /\ mpc = "range"
    /\ Len(mchan) > 0
    /\ LET c == Head(mchan)
           r == Concat(mresult, c.Content)
       IN /\ mresult' = r
          /\ mtaken' = Append(mtaken, c)
          /\ IF MergeBreaks(c)
             THEN mpc' = "returned" /\ mret' = [value |-> r, err |-> Nil]
             ELSE UNCHANGED <<mpc, mret>>
    /\ mchan' = Tail(mchan)
    /\ UNCHANGED <<mclosed, msent, nonMergeVars>>

\* the range loop ends on the closed, drained channel: return result, nil
MergeRangeEnds ==
    /\ mpc = "range"
    /\ mchan = <<>>
    /\ mclosed
    /\ mpc' = "returned"
    /\ mret' = [value |-> mresult, err |-> Nil]
    /\ UNCHANGED <<mchan, mclosed, msent, mresult, mtaken, nonMergeVars>>

InitMerge ==
    /\ MergeUnused
    /\ RetryIdle /\ CtxLive /\ ProducerIdle /\ StreamIdle /\ ConfigUnused /\ BackoffUnused /\ SessionUnused
    /\ ErrorsUnused /\ SendConversationIdle /\ FanOutUnused

NextMerge ==
    \/ \E c \in StreamChunks : ChannelSend(c)
    \/ ChannelClose
    \/ MergeStreamChunksCall
    \/ MergeReceive
    \/ MergeRangeEnds

SpecMerge == InitMerge /\ [][NextMerge]_vars

\* index of the first finished chunk of a sequence, 0 when there is none
FirstFinished(cs) ==
    IF \E i \in 1..Len(cs) : cs[i].Finished
    THEN CHOOSE i \in 1..Len(cs) :
            cs[i].Finished /\ \A j \in 1..(i - 1) : ~cs[j].Finished
    ELSE 0

\* C20: MergeStreamChunks returns, without an error, the contents of the
\* chunks sent on the channel concatenated in order up to and including the
\* first finished chunk, and has taken no chunk after that one; when the
\* channel is closed without a finished chunk it returns the concatenation
\* of all chunks sent.
C20_MergeUpToFirstFinished ==
    mpc = "returned" =>
        LET k == FirstFinished(msent) IN
        /\ mret.err = Nil
        /\ IF k > 0
           THEN /\ mtaken = SubSeq(msent, 1, k)
                /\ mret.value = ConcatContents(SubSeq(msent, 1, k))
           ELSE /\ mclosed
                /\ mtaken = msent
                /\ mret.value = ConcatContents(msent)

C20_Witness ==
    /\ mpc = "returned"
    /\ Len(msent) = 3
    /\ ~msent[1].Finished /\ msent[2].Finished
    /\ msent[1].Content # <<>> /\ msent[2].Content # <<>>
    /\ Len(mtaken) = 2
    /\ Len(mchan) = 1
    /\ mret.value = msent[1].Content \o msent[2].Content

\* ------------------------------------------------------------------------
\* The chunk sequence of a provider stream
\* ------------------------------------------------------------------------
\* every chunk the producer goroutine has put on resultChan, in order
ProviderChunks == received \o chunks

\* exactly one chunk is finished, and it is the last one
TerminatedOnce(cs) ==
    /\ Len(cs) > 0
    /\ cs[Len(cs)].Finished
    /\ \A i \in 1..(Len(cs) - 1) : ~cs[i].Finished

\* C21: when the producer goroutine of a provider stream has closed its
\* channel, the chunks it delivered hold exactly one finished chunk, and that
\* chunk is the last one, however the request ended.
C21_ExactlyOneTerminalChunk ==
    (client # "none" /\ ppc = "closed") => TerminatedOnce(ProviderChunks)

\* s.Len() and s.IsEmpty()
SessionLen == Len(conversation)
SessionIsEmpty == Len(conversation) = 0

\* C26: after Clear() the conversation has no messages, and after
\* ResetWithSystem(t) it is exactly one system message with content t,
\* whatever the history was before.
C26_ClearAndResetReplaceHistory ==
    /\ CallReturned("Clear") => (SessionLen = 0 /\ SessionIsEmpty)
    /\ CallReturned("ResetWithSystem") =>
          (/\ SessionLen = 1
           /\ conversation[1].Role = "system"
           /\ conversation[1].Content = callMsg)

C26_Witness ==
    /\ CallReturned("ResetWithSystem")
    /\ Len(prior) = 2
    /\ conversation = <<[Role |-> "system", Content |-> <<"s">>]>>

\* ------------------------------------------------------------------------
\* StreamConversation of a provider, read by a consumer: the OpenAI and
\* Claude producers scan the response, the Gemini producer makes one
\* SendConversation call
\* ------------------------------------------------------------------------
GeminiChanCap == 1     \* make(chan StreamChunk, 1)

ProviderFrames(c) == IF c = "Claude" THEN ClaudeFrames ELSE Frames

\* resultChan := make(chan StreamChunk, ...); go func() {...}(); return
ProviderStreamConversation ==
    /\ client \in Providers
    /\ ppc = "idle"
    /\ ~chunksClosed
    /\ ppc' = "start"
    /\ UNCHANGED <<framesRead, chunks, chunksClosed, produced, retryVars, ctxVars,
                   sessionVars, streamVars, extVars>>

NativeProducerStart ==
    /\ client \in {"OpenAI", "Claude"}
    /\ ProducerStart

\* one iteration of for scanner.Scan(), the line being recorded
ScanFrameLogged(f) ==
    /\ f \in ProviderFrames(client)
    /\ ScanFrameStep(f)
    /\ scanned' = Append(scanned, f)
    /\ UNCHANGED <<restVars, lateVars>>

\* Gemini: result, err := c.SendConversation(ctx, conversation)
GeminiSendConversation ==
    /\ client = "Gemini"
    /\ ppc = "start"
    /\ ProviderSendConversation

GeminiChunk_NotFinished(out) ==
    StreamChunk(IF out.err # Nil THEN <<>> ELSE out.value, FALSE)

\* StreamChunk{Content: "", Finished: true} on error, else
\* StreamChunk{Content: result, Finished: true}
GeminiChunk(out) ==
    StreamChunk(IF out.err # Nil THEN <<>> ELSE out.value, TRUE)

\* resultChan <- the single chunk
GeminiEmit ==
    /\ client = "Gemini"
    /\ ppc = "start"
    /\ scpc = "returned"
    /\ Len(chunks) < GeminiChanCap
    /\ chunks' = Append(chunks, GeminiChunk(scRet))
    /\ produced' = produced + 1
    /\ ppc' = "closing"
    /\ UNCHANGED <<framesRead, chunksClosed, retryVars, ctxVars, sessionVars,
                   streamVars, extVars>>

\* the consumer takes a chunk from the channel StreamConversation returned
ConsumerReceive ==
    /\ client \in Providers
    /\ gpc = "none"
    /\ Len(chunks) > 0
    /\ received' = Append(received, Head(chunks))
    /\ chunks' = Tail(chunks)
    /\ UNCHANGED <<ppc, framesRead, chunksClosed, produced, retryVars, ctxVars,
                   sessionVars, gpc, fullContent, chunk, wrapped, wrappedClosed,
                   delivered, extVars>>

InitProviderStream ==
    /\ client \in Providers
    /\ cfgRetries \in 0..MaxClientRetries
    /\ conversation = <<>>
    /\ CallIdle /\ RetryIdle /\ CtxLive /\ ProducerIdle /\ StreamIdle /\ ConfigUnused /\ BackoffUnused
    /\ ErrorsUnused /\ SendConversationIdle /\ FanOutUnused /\ MergeUnused

\* the steps of the producer goroutine
ProducerStep ==
    \/ NativeProducerStart
    \/ \E e \in RequestErrors : StreamRequestFails(e)
    \/ StreamRequestOpens
    \/ \E f \in Frames \cup ClaudeFrames : ScanFrameLogged(f)
    \/ \E e \in {Nil, NewStreamReadError} : ScanEnds(e)
    \/ SelectCtxDone
    \/ SelectTimeAfter
    \/ ProducerFailChunk
    \/ ProducerClose
    \/ GeminiSendConversation
    \/ SendRequestStart
    \/ \E o \in SendRequestOutcomes : SendRequestReturns(o)
    \/ SendConversationReturn
    \/ GeminiEmit

NextProviderStream ==
    \/ ProviderStreamConversation
    \/ ProducerStep
    \/ ConsumerReceive
    \/ \E e \in ContextErrors : CtxCancel(e)

SpecProviderStream == InitProviderStream /\ [][NextProviderStream]_vars

\* The goroutine is scheduled and the consumer keeps reading.
SpecProviderStreamLive ==
    SpecProviderStream /\ WF_vars(ProducerStep) /\ WF_vars(ConsumerReceive)

\* the transport failed while the response was being read
ReadFailed == ppc = "retrying" /\ rpc = "done" /\ rret = NewStreamReadError

\* the consumer has taken a finished chunk as the last one of a channel that
\* is closed and drained
ConsumerSawEnd ==
    /\ chunksClosed
    /\ chunks = <<>>
    /\ Len(received) > 0
    /\ received[Len(received)].Finished

\* C22: when the read of a stream fails, the producer reads no further line,
\* and a consumer that keeps reading eventually gets a finished chunk and
\* finds the channel closed.
C22_ReadFailureEndsStream ==
    /\ ReadFailed ~> ConsumerSawEnd
    /\ [][ReadFailed => (framesRead' = framesRead /\ scanned' = scanned)]_vars

C22_Witness ==
    /\ lastErr = NewStreamReadError
    /\ ConsumerSawEnd
    /\ Len(received) = 2
    /\ ~received[1].Finished

\* C23: the Gemini producer makes one SendConversation call and delivers
\* exactly one chunk, which is finished, before it closes the channel; the
\* chunk holds the full result on success and is empty on failure.
C23_GeminiSingleTerminalChunk ==
    client = "Gemini" =>
        /\ Len(ProviderChunks) <= 1
        /\ Len(outcomes) > 0 => scpc # "idle"
        /\ ppc = "closed" =>
              /\ scpc = "returned"
              /\ Len(ProviderChunks) = 1
              /\ ProviderChunks[1].Finished
              /\ ProviderChunks[1].Content =
                    (IF scRet.err = Nil THEN scRet.value ELSE <<>>)

C23_Witness ==
    /\ client = "Gemini"
    /\ ppc = "closed"
    /\ scRet.err = Nil
    /\ received = <<StreamChunk(<<"a">>, TRUE)>>

IsContentFrame(f) == f.type = "content"
IsTerminalFrame(f) == f.type \in {"done", "finish", "stop"}
NotFinished(c) == ~c.Finished

\* C30: in the OpenAI and Claude producers the line that yields a terminal
\* chunk (the sentinel or a message_stop event: an empty finished chunk; a
\* finish-reason frame: a finished chunk with the frame's content) is the
\* last line read and its chunk the last chunk emitted, and the content
\* frames read yield one unfinished chunk each, in frame order.
C30_TerminalFrameStopsProducer ==
    client \in {"OpenAI", "Claude"} =>
        LET n == Len(scanned)
            contents == SelectSeq(scanned, IsContentFrame)
            plain == SelectSeq(ProviderChunks, NotFinished)
        IN /\ \A i \in 1..n : IsTerminalFrame(scanned[i]) => i = n
           /\ Len(plain) = Len(contents)
           /\ \A i \in 1..Len(plain) : plain[i].Content = contents[i].text
           /\ (n > 0 /\ IsTerminalFrame(scanned[n])) =>
                 /\ TerminatedOnce(ProviderChunks)
                 /\ ProviderChunks[Len(ProviderChunks)].Content =
                       (IF scanned[n].type = "finish" THEN scanned[n].text ELSE <<>>)

C30_Witness ==
    /\ client = "OpenAI"
    /\ ppc = "closed"
    /\ Len(scanned) = 2
    /\ scanned[1].type = "content" /\ scanned[2].type = "finish"
    /\ received = <<StreamChunk(<<"a">>, FALSE), StreamChunk(<<"b">>, TRUE)>>

\* ------------------------------------------------------------------------
\* ValidateConfig and CreateClient
\* ------------------------------------------------------------------------
MaxSets == 2     \* Set* calls made on one configuration

NewInvalidParameterError == ClientError("config", "invalid_parameter")
NewMissingConfigError == ClientError("config", "missing_config")

IsSet(field) == field.set

\* the temperature check accepts every set value up to 2.0 only when it is
\* not negative; this variant forgets the upper limit
ValidateConfig_NoUpperTemperature(config) ==
    IF config.Timeout <= 0 THEN NewInvalidParameterError
    ELSE IF config.Retries < 0 THEN NewInvalidParameterError
    ELSE IF IsSet(config.Temperature) /\ config.Temperature.v < 0
         THEN NewInvalidParameterError
    ELSE IF IsSet(config.MaxTokens) /\ config.MaxTokens.v <= 0
         THEN NewInvalidParameterError
    ELSE IF IsSet(config.TopP) /\ (config.TopP.v < 0 \/ config.TopP.v > 10)
         THEN NewInvalidParameterError
    ELSE IF IsSet(config.FrequencyPenalty)
            /\ (config.FrequencyPenalty.v < 0 - 20 \/ config.FrequencyPenalty.v > 20)
         THEN NewInvalidParameterError
    ELSE IF IsSet(config.PresencePenalty)
            /\ (config.PresencePenalty.v < 0 - 20 \/ config.PresencePenalty.v > 20)
         THEN NewInvalidParameterError
    ELSE Nil

\* ValidateConfig(config): the first failing check returns its error
ValidateConfig(config) ==
    IF config.Timeout <= 0 THEN NewInvalidParameterError
    ELSE IF config.Retries < 0 THEN NewInvalidParameterError
    ELSE IF IsSet(config.Temperature)
            /\ (config.Temperature.v < 0 \/ config.Temperature.v > 20)
         THEN NewInvalidParameterError
    ELSE IF IsSet(config.MaxTokens) /\ config.MaxTokens.v <= 0
         THEN NewInvalidParameterError
    ELSE IF IsSet(config.TopP) /\ (config.TopP.v < 0 \/ config.TopP.v > 10)
         THEN NewInvalidParameterError
    ELSE IF IsSet(config.FrequencyPenalty)
            /\ (config.FrequencyPenalty.v < 0 - 20 \/ config.FrequencyPenalty.v > 20)
         THEN NewInvalidParameterError
    ELSE IF IsSet(config.PresencePenalty)
            /\ (config.PresencePenalty.v < 0 - 20 \/ config.PresencePenalty.v > 20)
         THEN NewInvalidParameterError
    ELSE Nil

\* strings.ToLower and strings.TrimSpace on a string given as its characters
UpperCase ==
    <<"A", "B", "C", "D", "E", "F", "G", "H", "I", "J", "K", "L", "M",
      "N", "O", "P", "Q", "R", "S", "T", "U", "V", "W", "X", "Y", "Z">>

LowerCase ==
    <<"a", "b", "c", "d", "e", "f", "g", "h", "i", "j", "k", "l", "m",
      "n", "o", "p", "q", "r", "s", "t", "u", "v", "w", "x", "y", "z">>
WhiteSpace == {" ", "\t", "\n", "\r"}

ToLowerChar(ch) ==
    IF \E i \in DOMAIN UpperCase : UpperCase[i] = ch
    THEN LowerCase[CHOOSE i \in DOMAIN UpperCase : UpperCase[i] = ch]
    ELSE ch

ToLower_Unchanged(str) == str

ToLower(str) == [i \in DOMAIN str |-> ToLowerChar(str[i])]

RECURSIVE TrimLeft(_)
TrimLeft(str) ==
    IF str # <<>> /\ Head(str) \in WhiteSpace THEN TrimLeft(Tail(str)) ELSE str

RECURSIVE TrimRight(_)
TrimRight(str) ==
    IF str # <<>> /\ str[Len(str)] \in WhiteSpace
    THEN TrimRight(SubSeq(str, 1, Len(str) - 1))
    ELSE str

TrimSpace(str) == TrimRight(TrimLeft(str))

openai == <<"o", "p", "e", "n", "a", "i">>
anthropic == <<"a", "n", "t", "h", "r", "o", "p", "i", "c">>
claude == <<"c", "l", "a", "u", "d", "e">>
google == <<"g", "o", "o", "g", "l", "e">>
gemini == <<"g", "e", "m", "i", "n", "i">>

\* os.Getenv(name); the value of a variable that is set is written as its name
Getenv(name) == IF name \in env THEN name ELSE ""

getAPIKeyFromEnv(provider) ==
    CASE provider = openai ->
           IF Getenv("OPENAI_API_KEY") # "" THEN Getenv("OPENAI_API_KEY")
           ELSE Getenv("CHATGPT_API_KEY")
      [] provider \in {anthropic, claude} ->
           IF Getenv("ANTHROPIC_API_KEY") # "" THEN Getenv("ANTHROPIC_API_KEY")
           ELSE Getenv("CLAUDE_API_KEY")
      [] provider \in {google, gemini} ->
           IF Getenv("GOOGLE_API_KEY") # "" THEN Getenv("GOOGLE_API_KEY")
           ELSE Getenv("GEMINI_API_KEY")
      [] OTHER -> ""

getDefaultModel(provider) ==
    CASE provider = openai -> "gpt-3.5-turbo"
      [] provider \in {anthropic, claude} -> "claude-3-haiku-20240307"
      [] provider \in {google, gemini} -> "gemini-1.5-flash"
      [] OTHER -> ""

\* return nil, err
Failed(e) == [client |-> NilClient, err |-> e]

\* NewOpenAIClient, NewClaudeClient, NewGeminiClient
NewClient(variant, apiKey, model, config) ==
    IF apiKey = "" THEN Failed(NewInvalidAPIKeyError)
    ELSE [client |-> [variant |-> variant, apiKey |-> apiKey, model |-> model,
                      config |-> config],
          err |-> Nil]

\* CreateClient(provider, apiKey, model, config)
CreateClient(provider, apiKey, model, config) ==
    LET c == IF config = NilConfig THEN NewClientConfig ELSE config
        p == ToLower(TrimSpace(provider))
        k == IF apiKey = "" THEN getAPIKeyFromEnv(p) ELSE apiKey
        m == IF model = "" THEN getDefaultModel(p) ELSE model
    IN IF ValidateConfig(c) # Nil THEN Failed(ValidateConfig(c))
       ELSE IF k = "" THEN Failed(NewMissingConfigError)
       ELSE CASE p = openai -> NewClient("OpenAI", k, m, c)
              [] p \in {anthropic, claude} -> NewClient("Claude", k, m, c)
              [] p \in {google, gemini} -> NewClient("Gemini", k, m, c)
              [] OTHER -> Failed(NewInvalidParameterError)

\* the arguments the Set* methods are called with
TimeoutValues == {0 - 1, 0, 5}
RetriesValues == {0 - 1, 0}
TemperatureValues == {0 - 1, 0, 10, 20, 21}
MaxTokensValues == {0 - 1, 0, 1}
TopPValues == {0 - 1, 0, 8, 10, 11}
PenaltyValues == {0 - 21, 0 - 20, 20, 21}

Setters ==
    [Timeout |-> TimeoutValues, Retries |-> RetriesValues,
     Temperature |-> {Some(v) : v \in TemperatureValues},
     MaxTokens |-> {Some(v) : v \in MaxTokensValues},
     TopP |-> {Some(v) : v \in TopPValues},
     FrequencyPenalty |-> {Some(v) : v \in PenaltyValues},
     PresencePenalty |-> {Some(v) : v \in PenaltyValues},
     RetryStrategy |-> {"fixed"}]

\* config.SetTimeout(v), SetRetries(v), SetTemperature(v), ...
Set(field, v) ==
    /\ cpc = NoCall
    /\ client = "none"
    /\ cfgSets < MaxSets
    /\ v \in Setters[field]
    /\ cfg' = [cfg EXCEPT ![field] = v]
    /\ cfgSets' = cfgSets + 1
    /\ UNCHANGED <<env, cpc, cret>>
    /\ UNCHANGED <<retryVars, ctxVars, producerVars, sessionVars, streamVars>>
    /\ UNCHANGED <<restVars, scanVars, backoffVars>>

\* err := ValidateConfig(config)
CallValidateConfig ==
    /\ cpc = NoCall
    /\ client = "none"
    /\ cpc' = Call("ValidateConfig", <<>>, "", "", cfg)
    /\ cret' = Failed(ValidateConfig(cfg))
    /\ UNCHANGED <<cfg, cfgSets, env>>
    /\ UNCHANGED <<retryVars, ctxVars, producerVars, sessionVars, streamVars>>
    /\ UNCHANGED <<restVars, scanVars, backoffVars>>

ProviderInputs ==
    {openai, <<"O", "p", "e", "n", "A", "I">>, <<" ">> \o openai \o <<" ">>,
     <<"o", "p", "e", "n", " ", "a", "i">>,
     anthropic, claude, <<"C", "L", "A", "U", "D", "E">>,
     google, gemini, <<"\t", "G", "e", "m", "i", "n", "i", "\n">>,
     <<"a", "z", "u", "r", "e">>, <<>>}
APIKeyInputs == {"", "test-key"}
ModelInputs == {"", "my-model"}

\* client, err := CreateClient(provider, apiKey, model, config)
CallCreateClient(provider, apiKey, model, config) ==
    /\ cpc = NoCall
    /\ client = "none"
    /\ provider \in ProviderInputs
    /\ apiKey \in APIKeyInputs
    /\ model \in ModelInputs
    /\ config \in {NilConfig, cfg}
    /\ config = NilConfig => cfgSets = 0    \* a caller passing nil builds none
    /\ cpc' = Call("CreateClient", provider, apiKey, model, config)
    /\ cret' = CreateClient(provider, apiKey, model, config)
    /\ UNCHANGED <<cfg, cfgSets, env>>
    /\ UNCHANGED <<retryVars, ctxVars, producerVars, sessionVars, streamVars>>
    /\ UNCHANGED <<restVars, scanVars, backoffVars>>

Environments ==
    {{}, {"CHATGPT_API_KEY"}, {"ANTHROPIC_API_KEY", "GEMINI_API_KEY"},
     {"OPENAI_API_KEY", "CLAUDE_API_KEY", "GOOGLE_API_KEY"}}

InitConfig ==
    /\ cfg = NewClientConfig
    /\ env \in Environments
    /\ ConfigIdle
    /\ BackoffUnused
    /\ RetryIdle /\ CtxLive /\ ProducerIdle /\ StreamIdle /\ SessionUnused
    /\ ErrorsUnused /\ SendConversationIdle /\ FanOutUnused /\ MergeUnused

NextConfig ==
    \/ \E field \in DOMAIN Setters : \E v \in Setters[field] : Set(field, v)
    \/ CallValidateConfig
    \/ \E provider \in ProviderInputs, apiKey \in APIKeyInputs,
          model \in ModelInputs, config \in {NilConfig, cfg} :
           CallCreateClient(provider, apiKey, model, config)

SpecConfig == InitConfig /\ [][NextConfig]_vars

\* the configurations the contract of ValidateConfig rejects
OutOfRange(field, lo, hi) == field.set /\ (field.v < lo \/ field.v > hi)

Rejected(c) ==
    \/ c.Timeout <= 0
    \/ c.Retries < 0
    \/ OutOfRange(c.Temperature, 0, 20)
    \/ c.MaxTokens.set /\ c.MaxTokens.v <= 0
    \/ OutOfRange(c.TopP, 0, 10)
    \/ OutOfRange(c.FrequencyPenalty, 0 - 20, 20)
    \/ OutOfRange(c.PresencePenalty, 0 - 20, 20)

IsConfigError(e) == e.kind = "ClientError" /\ e.Type = "config"

\* C24: ValidateConfig returns an error exactly for a timeout <= 0, retries
\* < 0, a set temperature outside [0, 2], a set max-token count <= 0, a set
\* top-p outside [0, 1] or a set penalty outside [-2, 2]; every other
\* configuration, unset optional fields included, is accepted.
C24_ValidateConfigRejectsExactly ==
    cpc.fn = "ValidateConfig" =>
        /\ (cret.err # Nil) <=> Rejected(cfg)
        /\ cret.err # Nil => IsConfigError(cret.err)

C24_Witness ==
    /\ cpc.fn = "ValidateConfig"
    /\ cfgSets = 1
    /\ cfg.Temperature = Some(21)
    /\ cret.err = NewInvalidParameterError

\* the variant each provider string of ProviderInputs stands for
ExpectedVariant(provider) ==
    CASE provider \in {openai, <<"O", "p", "e", "n", "A", "I">>,
                       <<" ", "o", "p", "e", "n", "a", "i", " ">>} -> "OpenAI"
      [] provider \in {anthropic, claude, <<"C", "L", "A", "U", "D", "E">>} -> "Claude"
      [] provider \in {google, gemini,
                       <<"\t", "G", "e", "m", "i", "n", "i", "\n">>} -> "Gemini"
      [] OTHER -> "nil"

EnvNames(variant) ==
    CASE variant = "OpenAI" -> {"OPENAI_API_KEY", "CHATGPT_API_KEY"}
      [] variant = "Claude" -> {"ANTHROPIC_API_KEY", "CLAUDE_API_KEY"}
      [] variant = "Gemini" -> {"GOOGLE_API_KEY", "GEMINI_API_KEY"}
      [] OTHER -> {}

\* the arguments for which CreateClient is to build a client
Creatable(provider, apiKey, config) ==
    /\ ~Rejected(IF config = NilConfig THEN NewClientConfig ELSE config)
    /\ apiKey # "" \/ env \cap EnvNames(ExpectedVariant(provider)) # {}
    /\ ExpectedVariant(provider) # "nil"

\* C25: CreateClient returns a client and a nil error exactly when the
\* configuration is valid, an API key is given or is in the environment, and
\* the trimmed, lower-cased provider is one of the five names; otherwise it
\* returns a nil client and a config error.  The variant depends on the
\* provider string alone.
C25_CreateClientSucceedsExactly ==
    cpc.fn = "CreateClient" =>
        IF Creatable(cpc.provider, cpc.apiKey, cpc.config)
        THEN /\ cret.err = Nil
             /\ cret.client.variant = ExpectedVariant(cpc.provider)
        ELSE /\ cret.client = NilClient
             /\ IsConfigError(cret.err)

C25_Witness ==
    /\ cpc.fn = "CreateClient"
    /\ cpc.provider = <<"C", "L", "A", "U", "D", "E">>
    /\ cpc.apiKey = ""
    /\ cpc.config = cfg
    /\ cfgSets > 0
    /\ cret.err = Nil
    /\ cret.client.variant = "Claude"
    /\ cret.client.apiKey = "ANTHROPIC_API_KEY"

\* ------------------------------------------------------------------------
\* A client built by CreateClient, called with and without a context
\* ------------------------------------------------------------------------
\* the configurations given to CreateClient: the defaults, with any retry
\* strategy and with or without retries
ClientConfigs ==
    {[NewClientConfig EXCEPT !.RetryStrategy = s, !.Retries = n] :
        s \in RetryStrategies, n \in {0, NewClientConfig.Retries}}

\* client, err := CreateClient(...): the client and its configuration are
\* bound when err is nil
Bind(r) ==
    /\ cret' = r
    /\ IF r.err = Nil
       THEN client' = r.client.variant /\ cfgRetries' = r.client.config.Retries
       ELSE UNCHANGED <<client, cfgRetries>>

\* QuickPrompt(provider, prompt), up to the return of CreateClient; on an
\* error it returns "", err
QuickPrompt(provider) ==
    /\ cpc = NoCall
    /\ client = "none"
    /\ cpc' = Call("QuickPrompt", provider, "", "", NilConfig)
    /\ Bind(CreateClient(provider, "", "", NilConfig))
    /\ UNCHANGED <<cfg, cfgSets, env>>
    /\ UNCHANGED <<conversation, spc, prior, callMsg, clientArg, clientOut, ret, calls>>
    /\ UNCHANGED <<retryVars, ctxVars, producerVars, streamVars>>
    /\ UNCHANGED <<restVars, scanVars, backoffVars>>

\* a caller of its own: CreateClient(provider, apiKey, "", config) followed
\* by client.SendPrompt(ctx, prompt) with a context
CreateAndSendPrompt(provider, apiKey) ==
    /\ cpc = NoCall
    /\ client = "none"
    /\ cpc' = Call("SendPrompt", provider, apiKey, "", cfg)
    /\ Bind(CreateClient(provider, apiKey, "", cfg))
    /\ UNCHANGED <<cfg, cfgSets, env>>
    /\ UNCHANGED <<conversation, spc, prior, callMsg, clientArg, clientOut, ret, calls>>
    /\ UNCHANGED <<retryVars, ctxVars, producerVars, streamVars>>
    /\ UNCHANGED <<restVars, scanVars, backoffVars>>

\* The caller changes the configuration it passed to CreateClient, after the
\* client was built and before it is used: config.SetRetries(v).  The client
\* holds the pointer it was given (config: config), so c.config.Retries is
\* the caller's field.
SetRetriesAfterCreate(v) ==
    /\ cpc.fn = "SendPrompt"
    /\ client \in Providers
    /\ scpc = "idle"
    /\ cfgSets < MaxSets
    /\ v \in {0, 1}
    /\ cfg' = [cfg EXCEPT !.Retries = v]
    /\ cfgRetries' = v
    /\ cfgSets' = cfgSets + 1
    /\ UNCHANGED <<env, cpc, cret>>
    /\ UNCHANGED <<client, conversation, spc, prior, callMsg, clientArg, clientOut,
                   ret, calls>>
    /\ UNCHANGED <<retryVars, ctxVars, producerVars, streamVars>>
    /\ UNCHANGED <<restVars, scanVars, backoffVars>>

\* the call was made with ctx = nil
NilContext == cpc.fn = "QuickPrompt"

\* sendRequest with a nil context: http.NewRequestWithContext fails and
\* sendRequest returns NewConnectionError(err)
NilContextSendRequestReturns ==
    /\ NilContext
    /\ scpc = "running"
    /\ rpc = "op"
    /\ AfterOperation(NewConnectionError)
    /\ UNCHANGED <<scpc, scResult, scRet, ctxVars, producerVars, sessionVars,
                   streamVars, errVars, fanVars, mergeVars, tailVars>>

\* select { case <-ctx.Done(): ... } with a nil context: evaluating
\* ctx.Done() dereferences the nil interface and the goroutine panics
NilContextSelect ==
    /\ NilContext
    /\ rpc = "wait"
    /\ rpc' = "panic"
    /\ UNCHANGED <<engine, retries, baseDelay, attempt, lastErr, delay, rret, outcomes>>
    /\ UNCHANGED <<ctxVars, producerVars, sessionVars, streamVars, extVars>>

InitClientCall ==
    /\ cfg \in ClientConfigs
    /\ env \in {{}, {"OPENAI_API_KEY"}, {"GEMINI_API_KEY"}}
    /\ ConfigIdle
    /\ BackoffUnused
    /\ SessionUnused
    /\ RetryIdle /\ CtxLive /\ ProducerIdle /\ StreamIdle
    /\ ErrorsUnused /\ SendConversationIdle /\ FanOutUnused /\ MergeUnused

NextClientCall ==
    \/ \E provider \in {openai, gemini, <<>>} : QuickPrompt(provider)
    \/ \E provider \in {openai, claude}, apiKey \in APIKeyInputs :
          CreateAndSendPrompt(provider, apiKey)
    \/ \E v \in {0, 1} : SetRetriesAfterCreate(v)
    \/ ProviderSendConversation
    \/ SendRequestStart
    \/ ~NilContext /\ \E o \in SendRequestOutcomes : SendRequestReturns(o)
    \/ NilContextSendRequestReturns
    \/ ~NilContext /\ SelectCtxDone
    \/ ~NilContext /\ SelectTimeAfter
    \/ NilContextSelect
    \/ SendConversationReturn
    \/ ~NilContext /\ \E e \in ContextErrors : CancelDuringSend(e)

SpecClientCall == InitClientCall /\ [][NextClientCall]_vars

\* C27: QuickPrompt ends with a (response, error) return for every outcome
\* of the provider call, a retryable failure that takes the retry engine to
\* its wait included, and never crashes although it passes no context.
C27_QuickPromptNeverCrashes ==
    cpc.fn = "QuickPrompt" => rpc # "panic"

\* the delay, in seconds, each retry strategy prescribes after failed
\* attempt a for a base delay b
StrategyDelay(strategy, a, b) ==
    CASE strategy = "fixed" -> b
      [] strategy = "linear" -> b * (a + 1)
      [] strategy = "exponential" -> Min(b * Pow2(a), MaxDelaySeconds)

\* C28: the delay the retry engine waits after failed attempt a is the one
\* the configured retry strategy prescribes (base delay one second); a client
\* with the default configuration waits exponential delays.
C28_DelayFollowsStrategy ==
    (cpc.fn = "SendPrompt" /\ rpc = "wait"
        /\ cfg.RetryStrategy \in {"fixed", "linear", "exponential"}) =>
            delay = StrategyDelay(cfg.RetryStrategy, attempt, 1)

\* ------------------------------------------------------------------------
\* The delay of ExecuteWithExponentialBackoff in 64-bit arithmetic
\* ------------------------------------------------------------------------
\* A time.Duration is an int64 count of nanoseconds.  It is kept as a word of
\* four 16-bit limbs, least significant first, in two's complement, so that
\* products wrap exactly as they do in Go.
MaxBackoffRetries == 64     \* the retries argument

LimbBase == 256 * 256

\* the word of a number below 2^31
ToWord(n) == <<n % LimbBase, (n \div LimbBase) % LimbBase, 0, 0>>

\* w * k mod 2^64 for a small factor k
MulSmall(w, k) ==
    LET p1 == w[1] * k
        p2 == w[2] * k + (p1 \div LimbBase)
        p3 == w[3] * k + (p2 \div LimbBase)
        p4 == w[4] * k + (p3 \div LimbBase)
    IN <<p1 % LimbBase, p2 % LimbBase, p3 % LimbBase, p4 % LimbBase>>

\* w * 2^k mod 2^64 for k < 64: the bits move k % 16 places inside the limbs
\* and k \div 16 limbs up
ShiftLeft(w, k) ==
    LET m == MulSmall(w, Pow2(k % 16))
        q == k \div 16
    IN [i \in 1..4 |-> IF i - q >= 1 THEN m[i - q] ELSE 0]

\* x - y mod 2^64
SubWord(x, y) ==
    LET d1 == x[1] - y[1]
        b1 == IF d1 < 0 THEN 1 ELSE 0
        d2 == x[2] - y[2] - b1
        b2 == IF d2 < 0 THEN 1 ELSE 0
        d3 == x[3] - y[3] - b2
        b3 == IF d3 < 0 THEN 1 ELSE 0
        d4 == x[4] - y[4] - b3
    IN <<d1 % LimbBase, d2 % LimbBase, d3 % LimbBase, d4 % LimbBase>>

\* the sign bit of an int64
IsNegative(w) == w[4] >= LimbBase \div 2

UnsignedGreater(x, y) ==
    \E i \in 1..4 : x[i] > y[i] /\ \A j \in (i + 1)..4 : x[j] = y[j]

\* x > y on int64
Greater(x, y) ==
    IF IsNegative(x) # IsNegative(y) THEN IsNegative(y) ELSE UnsignedGreater(x, y)

Nanosecond == ToWord(1)
Millisecond == ToWord(1000000)
Second == ToWord(1000000000)
MaxInt64 == <<LimbBase - 1, LimbBase - 1, LimbBase - 1, LimbBase \div 2 - 1>>

\* 30 * time.Second
MaxDelay == MulSmall(Second, MaxDelaySeconds)

\* time.Duration(math.Pow(2, float64(attempt))): 2^attempt while it fits an
\* int64.  From 2^63 on the conversion of the float64 is out of range and its
\* result depends on the platform: the minimal int64 (2^63 as a word) or the
\* maximal one.  A factor is written as 2^shift, or 2^shift - 1 when sub.
PowAsDuration(a) ==
    IF a <= 62 THEN {[shift |-> a, sub |-> FALSE]}
    ELSE {[shift |-> 63, sub |-> FALSE], [shift |-> 63, sub |-> TRUE]}

\* factor * baseDelay on int64
Product(factor, b) ==
    IF factor.sub THEN SubWord(ShiftLeft(b, factor.shift), b)
    ELSE ShiftLeft(b, factor.shift)

\* if delay > 30*time.Second { delay = 30 * time.Second }
Cap(d) == IF Greater(d, MaxDelay) THEN MaxDelay ELSE d

BackoffBaseDelays ==
    {ZeroWord, Nanosecond, Millisecond, Second, MulSmall(Second, 10),
     MulSmall(Second, 3600), MaxInt64}

\* ExecuteWithExponentialBackoff(ctx, retries, baseDelay, operation) with an
\* operation that keeps failing with a retryable error
BackoffCall(b) ==
    /\ bd.pc = "idle"
    /\ client = "none"
    /\ b \in BackoffBaseDelays
    /\ bd' = [base |-> b, attempt |-> 0, delay |-> ZeroWord, prev |-> ZeroWord,
              pc |-> "loop"]
    /\ UNCHANGED <<retryVars, ctxVars, producerVars, sessionVars, streamVars>>
    /\ UNCHANGED <<restVars, scanVars, cfgVars>>

\* the delay is computed, unless this was the last attempt
BackoffDelayStep(factor) ==
    /\ bd.pc = "loop"
    /\ bd.attempt < MaxBackoffRetries
    /\ factor \in PowAsDuration(bd.attempt)
    /\ bd' = [bd EXCEPT !.delay = Cap(Product(factor, bd.base)),
                        !.prev = bd.delay,
                        !.pc = "wait"]
    /\ UNCHANGED <<retryVars, ctxVars, producerVars, sessionVars, streamVars>>
    /\ UNCHANGED <<restVars, scanVars, cfgVars>>

\* case <-time.After(delay): the next attempt
BackoffTimeAfter ==
    /\ bd.pc = "wait"
    /\ bd' = [bd EXCEPT !.attempt = bd.attempt + 1, !.pc = "loop"]
    /\ UNCHANGED <<retryVars, ctxVars, producerVars, sessionVars, streamVars>>
    /\ UNCHANGED <<restVars, scanVars, cfgVars>>

InitBackoff ==
    /\ BackoffUnused
    /\ ConfigUnused
    /\ SessionUnused
    /\ RetryIdle /\ CtxLive /\ ProducerIdle /\ StreamIdle
    /\ ErrorsUnused /\ SendConversationIdle /\ FanOutUnused /\ MergeUnused

NextBackoff ==
    \/ \E b \in BackoffBaseDelays : BackoffCall(b)
    \/ \E factor \in PowAsDuration(bd.attempt) : BackoffDelayStep(factor)
    \/ BackoffTimeAfter

SpecBackoff == InitBackoff /\ [][NextBackoff]_vars

\* C29: in ExecuteWithExponentialBackoff the delay computed for a
\* non-negative baseDelay and an attempt within the retry count is not
\* negative, is at most 30 seconds, and is not smaller than the delay of the
\* attempt before.
C29_DelayBoundedAndMonotone ==
    bd.pc = "wait" =>
        /\ ~IsNegative(bd.delay)
        /\ ~Greater(bd.delay, MaxDelay)
        /\ bd.attempt > 0 => ~Greater(bd.prev, bd.delay)

\* ------------------------------------------------------------------------
\* Unparsable frames
\* ------------------------------------------------------------------------
IsParsable(f) == f.type # "skip"

\* the chunk a parsable line stands for
ExpectedChunk(f) ==
    StreamChunk(IF f.type \in {"content", "finish"} THEN f.text ELSE <<>>,
                f.type # "content")

ChunksOfFrames(fs) == [i \in 1..Len(fs) |-> ExpectedChunk(fs[i])]

\* the request is being read, or has been read to its end without an error
ReadingBody ==
    /\ client \in {"OpenAI", "Claude"}
    /\ ppc = "retrying"
    /\ rpc = "op" \/ (rpc = "done" /\ rret = Nil)

\* the scanner has just returned a line that does not parse
SkippedLine ==
    /\ Len(scanned') = Len(scanned) + 1
    /\ ~IsParsable(scanned'[Len(scanned')])

\* C31: a frame that fails to parse gives no chunk and no error and does not
\* stop the stream: the chunks emitted for the lines read are those of the
\* same lines without the unparsable ones.
C31_UnparsableFramesAreSkipped ==
    /\ [](ReadingBody =>
            ProviderChunks = ChunksOfFrames(SelectSeq(scanned, IsParsable)))
    /\ [][SkippedLine =>
            /\ chunks' = chunks
            /\ rpc = "op" /\ rpc' = "op"
            /\ UNCHANGED <<rret, lastErr, outcomes, ppc, chunksClosed>>]_vars

C31_Witness ==
    /\ ReadingBody
    /\ client = "Claude"
    /\ Len(scanned) = 2
    /\ scanned[1].type = "skip" /\ scanned[2].type = "content"
    /\ received = <<StreamChunk(<<"a">>, FALSE)>>

\* ------------------------------------------------------------------------
\* Writes to the result slots of a fan-out
\* ------------------------------------------------------------------------
\* task j executes results[index] = ParallelResult{...} in this step
Writes(j) == tpc[j] = "assign" /\ tpc'[j] = "assigned"

HasWritten(j) == tpc[j] \in {"assigned", "done"}

\* C32: in a fan-out each result slot is written exactly once, by the task of
\* the same index: a step changes a slot only when that slot's task makes its
\* assignment, the assignment leaves every other slot alone, and a task that
\* has assigned never changes its slot again.
C32_OneWriterPerSlot ==
    [][(fpc # "idle" /\ fpc' # "idle") =>
          \A k \in 1..Len(fanClients) :
             /\ results'[k] # results[k] => Writes(k)
             /\ Writes(k) => \A j \in 1..Len(fanClients) :
                                j # k => (results'[j] = results[j] /\ ~Writes(j))
             /\ HasWritten(k) => results'[k] = results[k]]_vars

C32_Witness ==
    /\ fpc = "returned"
    /\ Len(fanClients) = 2
    /\ \A j \in 1..2 : tpc[j] = "done"
    /\ results[1].ClientName # results[2].ClientName
    /\ results[2].Error # Nil

\* ------------------------------------------------------------------------
\* A long response: the bounded channels between producer and consumer
\* ------------------------------------------------------------------------
MaxBurst == 111     \* content frames of one response

ChanHasRoom_Always(ch, cap) == TRUE

\* a send on a buffered channel proceeds only while the buffer is not full
ChanHasRoom(ch, cap) == Len(ch) < cap

BurstChunk == StreamChunk(<<"a">>, FALSE)

\* one iteration of for scanner.Scan() on a content frame:
\* resultChan <- StreamChunk{Content: ..., Finished: false}
ScanContentFrame ==
    /\ client = "OpenAI"
    /\ ppc = "retrying"
    /\ rpc = "op"
    /\ framesRead < MaxBurst
    /\ ChanHasRoom(chunks, ProviderChanCap)
    /\ chunks' = Append(chunks, BurstChunk)
    /\ produced' = produced + 1
    /\ framesRead' = framesRead + 1
    /\ UNCHANGED <<retryVars, ctxVars, sessionVars, streamVars, ppc, chunksClosed>>
    /\ UNCHANGED extVars

InitBackpressure ==
    /\ client = "OpenAI"
    /\ cfgRetries = 0
    /\ conversation = <<>>
    /\ CallIdle
    /\ RetryIdle
    /\ CtxLive
    /\ ProducerIdle
    /\ StreamIdle /\ ConfigUnused /\ BackoffUnused
    /\ ErrorsUnused /\ SendConversationIdle /\ FanOutUnused /\ MergeUnused

NextBackpressure ==
    \/ \E m \in UserTexts : Stream(m, Nil)
    \/ ProducerStart
    \/ StreamRequestOpens
    \/ ScanContentFrame
    \/ StreamRecv
    \/ StreamForward
    \/ CallerReceive

SpecBackpressure == InitBackpressure /\ [][NextBackpressure]_vars

\* the chunks between the producer and the consumer, oldest first
InFlight ==
    wrapped \o (IF gpc = "send" THEN <<chunk>> ELSE <<>>) \o chunks

\* C33: the provider channel never holds more than 10 chunks and the
\* session's channel never more than 100; a producer facing a full buffer
\* emits nothing until a chunk is taken, and no chunk is dropped: what the
\* consumer has taken and what is in flight are the chunks produced.
C33_BoundedBuffersNoLoss ==
    /\ [](/\ Len(chunks) <= ProviderChanCap
          /\ Len(wrapped) <= WrappedChanCap
          /\ delivered \o InFlight = [i \in 1..produced |-> BurstChunk])
    /\ [][/\ produced' > produced => Len(chunks) < ProviderChanCap
          /\ Len(wrapped') > Len(wrapped) => Len(wrapped) < WrappedChanCap]_vars

C33_Witness ==
    /\ Len(chunks) = ProviderChanCap
    /\ Len(wrapped) = WrappedChanCap
    /\ gpc = "send"
    /\ delivered = <<>>

\* C36: ExecuteWithRetry and ExecuteWithExponentialBackoff return nil only
\* if the operation was invoked at least once and its last invocation
\* returned nil, for every retry count, negative ones included.
C36_NilOnlyAfterSuccess ==
    (Returned /\ rret = Nil) =>
        /\ Invocations >= 1
        /\ outcomes[Invocations] = Nil

\* C35: a client is immutable after construction: changes the caller makes
\* afterwards to the ClientConfig it passed in do not change the client's
\* calls; in particular a call retries as often as the configuration said
\* when the client was built.
C35_ClientKeepsItsConfiguration ==
    (cpc.fn = "SendPrompt" /\ scpc = "running") =>
        retries = cret.client.config.Retries

\* ------------------------------------------------------------------------
\* C34: calls on one session made one after another never reorder the
\* messages: once Send, SendWithMetadata, Stream or AddMessage has returned,
\* the history the call started from is a prefix of the session's history
\* (equal to it after a rollback), and stays one while the stream the call
\* started runs.
\* ------------------------------------------------------------------------
IsPrefix(p, h) == Len(p) <= Len(h) /\ SubSeq(h, 1, Len(p)) = p

AppendingOps == {"Send", "SendWithMetadata", "Stream", "AddMessage"}

ConsumerHasFinished == \E i \in DOMAIN delivered : delivered[i].Finished

AssistantCommitted ==
    /\ Len(conversation) >= Len(prior) + 2
    /\ conversation[Len(prior) + 2].Role = "assistant"

C37_FinishedSeenAfterCommit ==
    (ret.op = "Stream" /\ ret.err = Nil /\ ConsumerHasFinished) =>
        AssistantCommitted

\* ------------------------------------------------------------------------
\* C38: a Stream call appends at most one assistant message, whatever the
\* source delivers: the history grows by the user message and at most one
\* more message.
\* ------------------------------------------------------------------------
C38_AtMostOneAssistantMessage ==
    (ret.op = "Stream" /\ ret.err = Nil) =>
        Len(conversation) <= Len(prior) + 2

\* ------------------------------------------------------------------------
\* A session used by a second caller while a stream runs.  Nothing in
\* ChatSession orders the calls of another goroutine with the goroutine of
\* Stream; the steps below are whole statements of those calls, taken
\* between two steps of the stream's goroutine.  They leave prior, callMsg
\* and ret, which describe the Stream call, as they are.
\* ------------------------------------------------------------------------
\* One such statement is taken, while the history is still as Stream left it.
StreamRunning ==
    /\ spc = "idle"
    /\ gpc \in {"recv", "send", "commit"}
    /\ conversation = clientArg

\* AddMessage by another caller; with the role "user" this is also the
\* first statement, s.conversation.AddUserMessage(message), of a Send,
\* SendWithMetadata or Stream by another caller
OtherAddMessage(role, content) ==
    /\ StreamRunning
    /\ conversation' = AddMessage(conversation, role, content)
    /\ UNCHANGED <<client, cfgRetries, spc, prior, callMsg, clientArg, clientOut, ret,
                   calls>>
    /\ UNCHANGED <<retryVars, ctxVars, producerVars, streamVars>>
    /\ UNCHANGED extVars

\* Clear by another caller
OtherClear ==
    /\ StreamRunning
    /\ conversation' = <<>>
    /\ UNCHANGED <<client, cfgRetries, spc, prior, callMsg, clientArg, clientOut, ret,
                   calls>>
    /\ UNCHANGED <<retryVars, ctxVars, producerVars, streamVars>>
    /\ UNCHANGED extVars

\* ResetWithSystem by another caller
OtherResetWithSystem(t) ==
    /\ StreamRunning
    /\ conversation' = AddSystemMessage(<<>>, t)
    /\ UNCHANGED <<client, cfgRetries, spc, prior, callMsg, clientArg, clientOut, ret,
                   calls>>
    /\ UNCHANGED <<retryVars, ctxVars, producerVars, streamVars>>
    /\ UNCHANGED extVars

InitSessionShared ==
    /\ InitSession
    /\ client = "AIClient"

\* the Stream call that is followed: the first call on the session
FirstStream(m, err) ==
    /\ calls = 0
    /\ Stream(m, err)

NextSessionShared ==
    \/ \E m \in UserTexts, e \in {Nil} \cup CallErrors : FirstStream(m, e)
    \/ StreamRecv
    \/ StreamForward
    \/ StreamCommit
    \/ StreamEnd
    \/ CallerReceive
    \/ \E c \in StreamChunks : SourceSend(c)
    \/ SourceClose
    \/ \E r \in Roles, t \in UserTexts : OtherAddMessage(r, t)
    \/ OtherClear
    \/ \E t \in SystemTexts : OtherResetWithSystem(t)

SpecSessionShared == InitSessionShared /\ [][NextSessionShared]_vars

\* ------------------------------------------------------------------------
\* C39: the assistant message a Stream call commits is placed directly after
\* the user message that call appended, whatever other session operations
\* are issued before the stream finishes.  Stated for the first finished
\* chunk of the stream.
\* ------------------------------------------------------------------------
FirstCommit ==
    /\ gpc = "commit"
    /\ Cardinality({i \in DOMAIN received : received[i].Finished}) = 1

C39_AssistantFollowsItsUserMessage ==
    [][(FirstCommit /\ gpc' = "recv") =>
          /\ Len(conversation') = Len(prior) + 2
          /\ conversation'[Len(prior) + 1] = Message("user", callMsg)
          /\ conversation'[Len(prior) + 2] = Message("assistant", fullContent)
          /\ SubSeq(conversation', 1, Len(prior)) = prior]_vars

\* ------------------------------------------------------------------------
\* The channel Stream returns, for any source: the goroutine of Stream, the
\* source and the consumer, each of which takes its step when it can.  The
\* source closes its channel at some point and the consumer keeps reading.
\* ------------------------------------------------------------------------
NextStreamWrapper ==
    \/ \E m \in UserTexts, e \in {Nil} \cup CallErrors : FirstStream(m, e)
    \/ StreamRecv
    \/ StreamForward
    \/ StreamCommit
    \/ StreamEnd
    \/ CallerReceive
    \/ \E c \in StreamChunks : SourceSend(c)
    \/ SourceClose

SpecStreamWrapperLive ==
    /\ InitSessionShared
    /\ [][NextStreamWrapper]_vars
    /\ WF_vars(StreamRecv)
    /\ WF_vars(StreamForward)
    /\ WF_vars(StreamCommit)
    /\ WF_vars(StreamEnd)
    /\ WF_vars(CallerReceive)
    /\ WF_vars(SourceClose)

\* ------------------------------------------------------------------------
\* C40: the channel Stream returns carries exactly the chunks taken from the
\* source, unchanged and in order; it is closed once, only after the source
\* was closed and every chunk forwarded; and with a consumer that keeps
\* reading and a source that closes, it is closed in the end.
\* ------------------------------------------------------------------------
StreamStarted == ret.op = "Stream" /\ ret.err = Nil

\* the chunk the goroutine holds between receiving and forwarding it
Held == IF gpc = "send" THEN <<chunk>> ELSE <<>>

C40_WrappedMirrorsSource ==
    /\ [](StreamStarted => delivered \o wrapped \o Held = received)
    /\ [](wrappedClosed =>
            /\ chunksClosed
            /\ chunks = <<>>
            /\ Len(received) = produced
            /\ delivered \o wrapped = received)
    /\ [][wrappedClosed =>
            /\ wrappedClosed'
            /\ gpc' = "closed"
            /\ received' = received
            /\ delivered' \o wrapped' = delivered \o wrapped]_vars
    /\ ((StreamStarted /\ ~wrappedClosed) ~> (wrappedClosed /\ delivered = received))

C40_Witness ==
    /\ wrappedClosed
    /\ Len(delivered) = 2
    /\ delivered[1] # delivered[2]
    /\ delivered = received
    /\ wrapped = <<>>

====
